---- MODULE Spec2Model ----
(***************************************************************************)
(* rylv-metrics: the concurrent aggregation engine and its flush pipeline. *)
(*                                                                         *)
(* Recorder threads (MetricCollector::count_add / gauge / histogram) load  *)
(* the published Aggregator and update one of its three maps; one worker   *)
(* thread (initialize_job / MetricCollectorJob) swaps the published        *)
(* Aggregator, waits until it is the only holder of the swapped-out one,   *)
(* drains it through the StatsWriterTrait and keeps it for reuse.          *)
(*                                                                         *)
(* Strings are sequences of bytes (naturals), so that byte order, joining  *)
(* and decimal formatting are computed and not assumed.                    *)
(***************************************************************************)
EXTENDS Naturals, Integers, Sequences, FiniteSets, Bags, TLC

(***************************************************************************)
(* Bounds of the model.                                                    *)
(***************************************************************************)
\* Largest value of the accumulator word.  The program's word is u64; the
\* model keeps the wrap-around arithmetic on a narrower word.
U64_MAX == 11

\* Number of recording calls started in one behaviour.
MaxCalls == 2

\* Number of values of the hasher's output word.
HashSpace == 5

\* Number of firings of the long flush tick in one behaviour.
MaxTicks == 3

\* Largest value of Transmit's length word.  The program's word is u16; the
\* model keeps the wrap-around arithmetic on a narrower word.
U16_MAX == 31

\* Number of write calls on the writer in one behaviour.
MaxWrites == 3

\* The longest tag sequence a function is applied to.
MaxTags == 3

(***************************************************************************)
(* Program constants.                                                      *)
(***************************************************************************)
\* The largest u8, the argument type of SigFig::new.
U8_MAX == 255

SIG_FIG_MAX == 5
SIG_FIG_DEF == 3
POOL_COUNT == SIG_FIG_MAX + 1

\* "No aggregator": the None of an Option<Aggregator> slot.
None == 0

(***************************************************************************)
(* Byte strings.                                                           *)
(***************************************************************************)
\* ASCII codes used by the line protocol.
ch_colon == 58
ch_pipe  == 124
ch_hash  == 35
ch_comma == 44
ch_nl    == 10
ch_zero  == 48

str_c == <<99>>
str_g == <<103>>
\* ".count", ".min", ".avg", ".99percentile", ".max"
sfx_count == <<46, 99, 111, 117, 110, 116>>
sfx_min   == <<46, 109, 105, 110>>
sfx_avg   == <<46, 97, 118, 103>>
sfx_p99   == <<46, 57, 57, 112, 101, 114, 99, 101, 110, 116, 105, 108, 101>>
sfx_max   == <<46, 109, 97, 120>>

\* str::cmp: byte-wise lexicographic order, a proper prefix first.
RECURSIVE StrLess(_, _)
StrLess(a, b) ==
    IF b = <<>> THEN FALSE
    ELSE IF a = <<>> THEN TRUE
    ELSE IF Head(a) # Head(b) THEN Head(a) < Head(b)
    ELSE StrLess(Tail(a), Tail(b))

\* Ord for RylvStr: compares as_ref(), the bytes.
RylvStr_le(a, b) == a = b \/ StrLess(a, b)

\* Insert x into the sorted sequence s, keeping it sorted.
RECURSIVE SortedInsert(_, _)
SortedInsert(x, s) ==
    IF s = <<>> THEN <<x>>
    ELSE IF RylvStr_le(x, Head(s)) THEN <<x>> \o s
    ELSE <<Head(s)>> \o SortedInsert(x, Tail(s))

\* The tag slice left in the caller's order.
sort_unstable_skipped(tags) == tags

\* mut_tags.sort_unstable(): the tag slice in ascending byte order.
RECURSIVE sort_unstable(_)
sort_unstable(tags) ==
    IF tags = <<>> THEN <<>>
    ELSE SortedInsert(Head(tags), sort_unstable(Tail(tags)))

\* The tags one after the other, with nothing between them.
RECURSIVE JoinRest_unseparated(_)
JoinRest_unseparated(tags) ==
    IF tags = <<>> THEN <<>>
    ELSE Head(tags) \o JoinRest_unseparated(Tail(tags))

\* The loop of materialize_tags: the first tag, then ',' and each next tag.
RECURSIVE JoinRest(_)
JoinRest(tags) ==
    IF tags = <<>> THEN <<>>
    ELSE <<ch_comma>> \o Head(tags) \o JoinRest(Tail(tags))

\* materialize_tags(tags).joined_tags
materialize_tags(tags) ==
    IF tags = <<>> THEN <<>>
    ELSE IF Len(tags) = 1 THEN tags[1]
    ELSE Head(tags) \o JoinRest(Tail(tags))

\* itoa::Buffer::format: the decimal digits of a word, most significant first.
RECURSIVE format(_)
format(n) ==
    IF n < 10 THEN <<ch_zero + n>>
    ELSE format(n \div 10) \o <<ch_zero + (n % 10)>>

\* A store in place of the addition: the earlier total is lost.
fetch_add_store(a, v) == v % (U64_MAX + 1)

\* An addition that stops at the largest word.
fetch_add_saturating(a, v) == IF a + v > U64_MAX THEN U64_MAX ELSE a + v

\* AtomicU64::fetch_add: wrapping addition on the accumulator word.
fetch_add(a, v) == (a + v) % (U64_MAX + 1)

\* std::hash::Hash for str feeds the bytes of the string to the hasher.  The
\* hasher is the caller's BuildHasher; the model's hasher mixes every byte in
\* order into a word of HashSpace values, so that distinct inputs may collide.
RECURSIVE hash_bytes(_, _)
hash_bytes(h, s) ==
    IF s = <<>> THEN (h * 3 + 1) % HashSpace
    ELSE hash_bytes((h * 3 + Head(s)) % HashSpace, Tail(s))

RECURSIVE hash_tags(_, _)
hash_tags(h, tags) ==
    IF tags = <<>> THEN h
    ELSE hash_tags(hash_bytes(h, Head(tags)), Tail(tags))

\* build_lookup_key: the LookupKey of (metric, tags), hashing the metric and
\* then every tag in the order of the slice.
build_lookup_key(metric, tags) ==
    [metric |-> metric, tags |-> tags,
     hash |-> hash_tags(hash_bytes(0, metric), tags)]

\* LookupKey::compare_tags
compare_tags(lk, tags) ==
    /\ Len(tags) = Len(lk.tags)
    /\ \A i \in 1..Len(tags) : tags[i] = lk.tags[i]

\* A comparison of the hashes alone.
compare_hash(lk, c) == c.hash = lk.hash

\* LookupKey::compare: equal hash, equal metric bytes, element-wise equal tags.
compare(lk, c) ==
    /\ c.hash = lk.hash
    /\ c.metric = lk.metric
    /\ compare_tags(lk, c.tags)

\* LookupKey::into_key, given the id drawn from NEXT_ID.
into_key(lk, id) ==
    [metric |-> lk.metric, tags |-> lk.tags,
     joined_tags |-> materialize_tags(lk.tags), hash |-> lk.hash, id |-> id]

\* AggregatorEntryKey::to_key
to_key(key) == [hash |-> key.hash, id |-> key.id]

(***************************************************************************)
(* Inputs of the recording calls.                                          *)
(***************************************************************************)
\* Metric names "m" and "n"; tags "b" and "ab" ("ab" < "b" byte-wise).
metric_m == <<109>>
metric_n == <<110>>
tag_b  == <<98>>
tag_ab == <<97, 98>>

Metrics == {metric_m}
TagSlices == {<<>>, <<tag_b, tag_ab>>, <<tag_ab, tag_b>>}
Values == {0, U64_MAX}
Threads == {1, 2}

\* MetricCollector.histogram_configs and default_sig_fig: "n" is configured
\* with 2 significant figures, every other metric takes the default.
histogram_configs == [x \in {metric_n} |-> 2]
default_sig_fig == SIG_FIG_DEF

(***************************************************************************)
(* State.                                                                  *)
(***************************************************************************)
VARIABLES
    aggs,       \* the Aggregator objects that exist, by generation number
    current_aggregator,             \* the generation published in the ArcSwap
    pending_to_process_aggregator,  \* MetricCollectorJob: Option<Arc<Aggregator>>
    available_aggregator,           \* MetricCollectorJob: Option<Aggregator>
    NEXT_ID,    \* the process-wide key id counter
    rec,        \* each recorder thread's call in progress
    wpc,        \* the worker: "start", "idle", "run" or "done"
    finish,     \* initialize_job's finish flag
    sender,     \* MetricCollector.sender is Some
    job_handle, \* MetricCollector.job_handle is Some (the worker is not joined)
    written,    \* the write calls the last drain made on the writer, in order
    ops,        \* the recording operations the application uses
    calls,      \* recording calls started so far
    ticks,      \* firings of the long tick so far
    win,        \* history: per generation, the calls applied since its last drain
    drained,    \* history: the calls applied to the generation the last drain took
    flushed,    \* history: the window and the write calls of every drain so far
    stats_writer,   \* the built-in writer behind the StatsWriterHolder
    socket,     \* the datagrams the UDP socket has accepted, in order
    wcall,      \* the writer's caller: its position and its last write call
    applied     \* a function applied on its own: its name, argument and result

vars == <<aggs, current_aggregator, pending_to_process_aggregator,
          available_aggregator, NEXT_ID, rec, wpc, finish, sender, job_handle,
          written, ops, calls, ticks, win, drained, flushed,
          stats_writer, socket, wcall, applied>>

\* The writer, its socket and its caller.
WriterVars == <<stats_writer, socket, wcall>>

\* Aggregator::with_hasher_builder: three empty maps and six empty pools.
with_hasher_builder ==
    [histograms |-> {}, count |-> {}, gauge |-> {},
     pool_histograms |-> [i \in 0..SIG_FIG_MAX |-> <<>>]]

\* A recorder thread outside any recording call.
IdleRec == [pc |-> "idle", agg |-> None]

\* Transmit::new: no parts, length 0.  (stale records that the parts are
\* slices of data of an earlier cycle, whose arena has been reset since.)
Transmit_new == [parts |-> <<>>, len |-> 0, stale |-> FALSE]

\* StatsWriterHolder::new for the built-in writers: StatsWriterSimple::new
\* (an empty String) or StatsWriterLinux::new (an empty Transmit, an empty
\* queue of capacity max_udp_batch_size).
StatsWriterHolder_new(writer_type, stats_prefix, max_udp_packet_size, max_udp_batch_size) ==
    [writer_type |-> writer_type,
     stats_prefix |-> stats_prefix,
     max_udp_packet_size |-> max_udp_packet_size,
     current_transmit |-> IF writer_type = "Simple" THEN <<>> ELSE Transmit_new,
     queued_transmits |-> <<>>,
     capacity |-> max_udp_batch_size,
     max_udp_batch_size |-> max_udp_batch_size]

\* The writer's caller before its first call.
NoCall ==
    [n |-> 0, phase |-> "open", metrics |-> <<>>, tags |-> <<>>, value |-> <<>>,
     metric_type |-> <<>>, result |-> "Ok", batch |-> 0, stale |-> FALSE,
     ret |-> 0, mark |-> 0]

\* The writer the collector's options select by default, not yet called.
InitStatsWriter ==
    /\ stats_writer = StatsWriterHolder_new("Simple", <<>>, U16_MAX, 1)
    /\ socket = <<>>
    /\ wcall = NoCall

\* No function has been applied on its own.
NotApplied == [fn |-> "none"]

\* The state MetricCollector::new leaves: one published Aggregator, the worker
\* thread spawned and not yet past the socket bind.
InitCollector ==
    /\ aggs = (1 :> with_hasher_builder)
    /\ current_aggregator = 1
    /\ pending_to_process_aggregator = None
    /\ available_aggregator = None
    /\ NEXT_ID = 0
    /\ rec = [t \in Threads |-> IdleRec]
    /\ wpc = "start"
    /\ finish = FALSE
    /\ sender = TRUE
    /\ job_handle = TRUE
    /\ written = <<>>
    /\ calls = 0
    /\ ticks = 0
    /\ win = (1 :> EmptyBag)
    /\ drained = EmptyBag
    /\ flushed = <<>>
    /\ applied = NotApplied

\* An application that records one kind of metric.
Init ==
    /\ InitCollector
    /\ InitStatsWriter
    /\ ops \in {{"count"}, {"gauge"}, {"histogram"}}

\* An application that records all three kinds.
InitMixed ==
    /\ InitCollector
    /\ InitStatsWriter
    /\ ops = {"count", "gauge", "histogram"}

(***************************************************************************)
(* Recorders.                                                              *)
(***************************************************************************)
\* The entries of a map that a lookup key finds (guard.find with
\* LookupKey::compare).
find(map, lk) == {e \in map : compare(lk, e.key)}

\* The tag multiset of a tag slice.
TagBag(tags) ==
    [x \in {tags[i] : i \in DOMAIN tags} |->
        Cardinality({i \in DOMAIN tags : tags[i] = x})]

\* The history entry of a call: the operation, the value and the identity the
\* caller passed, which is the metric and the multiset of the tags.
RawCall(r) ==
    [op |-> r.op, metric |-> r.metric, tags |-> TagBag(r.raw), value |-> r.value]

\* A call's update has been applied to generation g and the call returns: the
\* guard on the aggregator is dropped.
Return(t, g) ==
    /\ rec' = [rec EXCEPT ![t] = IdleRec]
    /\ win' = [win EXCEPT ![g] = @ (+) SetToBag({RawCall(rec[t])})]

\* The first statements of count_add, gauge and histogram: sort the caller's
\* tag slice in place and load the published aggregator.  (The threads run the
\* same code: of the threads outside a call, the lowest-numbered takes the
\* next call.)
Load(t, op, metric, value, tags) ==
    /\ rec[t].pc = "idle"
    /\ \A u \in Threads : u < t => rec[u].pc # "idle"
    /\ sender
    /\ op \in ops
    /\ calls < MaxCalls
    /\ calls' = calls + 1
    /\ rec' = [rec EXCEPT ![t] =
                 [pc |-> "loaded", op |-> op, metric |-> metric, value |-> value,
                  raw |-> tags, tags |-> sort_unstable(tags),
                  agg |-> current_aggregator, id |-> 0]]
    /\ UNCHANGED <<aggs, current_aggregator, pending_to_process_aggregator,
                   available_aggregator, NEXT_ID, wpc, finish, sender,
                   job_handle, written, ops, ticks, win, drained, flushed,
                   stats_writer, socket, wcall, applied>>

count_add(t) ==
    \E metric \in Metrics, value \in Values, tags \in TagSlices :
        Load(t, "count", metric, value, tags)

\* count(metric, tags) is count_add(metric, 1, tags).
count(t) ==
    \E metric \in Metrics, tags \in TagSlices : Load(t, "count", metric, 1, tags)

gauge(t) ==
    \E metric \in Metrics, value \in Values, tags \in TagSlices :
        Load(t, "gauge", metric, value, tags)

histogram(t) ==
    \E metric \in Metrics, value \in Values, tags \in TagSlices :
        Load(t, "histogram", metric, value, tags)

\* The generations something refers to: the ArcSwap, the job's two slots and
\* the guards of the recorders inside a call.  An Aggregator is freed when
\* its last Arc is dropped.
Referenced(cur, pend, avail, r) ==
    ({cur, pend, avail} \cup {r[t].agg : t \in Threads}) \ {None}

Restrict(f, S) == [g \in (DOMAIN f) \cap S |-> f[g]]

\* A map with the value of every entry replaced.
with_value_of_all(map, e, v) == {[d EXCEPT !.val = v] : d \in map}

\* A map with the value of entry e replaced.
with_value(map, e, v) == (map \ {e}) \cup {[e EXCEPT !.val = v]}

\* Histogram::record on the distribution: one more recorded value (the
\* distribution is kept as the ascending sequence of its values).
RECURSIVE histogram_record(_, _)
histogram_record(h, value) ==
    IF h = <<>> THEN <<value>>
    ELSE IF value <= Head(h) THEN <<value>> \o h
    ELSE <<Head(h)>> \o histogram_record(Tail(h), value)

min(a, b) == IF a <= b THEN a ELSE b
max(a, b) == IF a >= b THEN a ELSE b

\* A record that does not track the extrema.
record_histogram_only(cell, value) ==
    [cell EXCEPT !.histogram = histogram_record(@, value)]

\* Histogram::record, its result: Err for a value above the highest value the
\* histogram was created to track (it does not resize), else Ok.
record_result(cell, value) == IF value > cell.high THEN "Err" ELSE "Ok"

\* HistogramWrapper::record: the extrema are updated, then the value is
\* recorded into the histogram, which refuses a value out of its range.
record(cell, value) ==
    [cell EXCEPT !.min = min(@, value), !.max = max(@, value),
                 !.histogram = IF record_result(cell, value) = "Ok"
                               THEN histogram_record(@, value) ELSE @]

\* A reset of the distribution alone: the extrema stay.
reset_histogram_only(cell) == [cell EXCEPT !.histogram = <<>>]

\* HistogramWrapper::reset
reset(cell) == [cell EXCEPT !.min = U64_MAX, !.max = 0, !.histogram = <<>>]

\* The cell Aggregator::get_histogram creates when the pool bucket is empty:
\* Histogram::new_with_bounds(1, u64::MAX, sig_fig), so that its highest
\* trackable value is u64::MAX.
new_with_bounds(sig_fig) ==
    [min |-> U64_MAX, max |-> 0, histogram |-> <<>>, sig_fig |-> sig_fig,
     high |-> U64_MAX]

\* Aggregator::get_histogram: the pooled cell of that precision, else a new one.
get_histogram(agg, sig_fig) ==
    IF agg.pool_histograms[sig_fig] # <<>>
    THEN Head(agg.pool_histograms[sig_fig])
    ELSE new_with_bounds(sig_fig)

\* The pools after get_histogram: the bucket's first cell is popped.
pool_after_get(agg, sig_fig) ==
    IF agg.pool_histograms[sig_fig] # <<>>
    THEN [agg.pool_histograms EXCEPT ![sig_fig] = Tail(@)]
    ELSE agg.pool_histograms

\* The default precision for every metric.
sig_fig_of_default(metric) == default_sig_fig

\* The precision of a new histogram key: the metric's configuration, else the
\* default.
sig_fig_of(metric) ==
    IF metric \in DOMAIN histogram_configs THEN histogram_configs[metric]
    ELSE default_sig_fig

\* The value new_fn creates, with record_fn applied once to it.
first_value(op, value) ==
    IF op = "count" THEN fetch_add(0, value)
    ELSE [count |-> fetch_add(0, 1), sum |-> fetch_add(0, value)]

RecFrame == <<current_aggregator, pending_to_process_aggregator,
              available_aggregator, wpc, finish, sender, job_handle, written,
              ops, calls, ticks, drained, flushed, stats_writer, socket, wcall, applied>>

\* record_fn on an entry that a probe found.  A counter is one fetch_add; a
\* gauge is two, count first, and the thread may be preempted between them.
record_found(t, g, e) ==
    LET r == rec[t] IN
    IF r.op = "count"
    THEN /\ aggs' = [aggs EXCEPT ![g].count =
                        with_value(@, e, fetch_add(e.val, r.value))]
         /\ Return(t, g)
    ELSE /\ aggs' = [aggs EXCEPT ![g].gauge =
                        with_value(@, e, [e.val EXCEPT !.count = fetch_add(@, 1)])]
         /\ rec' = [rec EXCEPT ![t] = [r EXCEPT !.pc = "gsum", !.id = e.key.id]]
         /\ win' = win

\* add_or_insert_entry_read_first, fast path: probe under the shard's shared
\* lock; on a hit update the entry, on a miss go for the exclusive lock.
\* (The probe and the update are one step here, which is what they amount to
\* as long as the shard's table is not resized in between; shard_read_find
\* and shard_bucket_record are the two taken apart.)
read_probe(t) ==
    LET r == rec[t]
        g == r.agg
        lk == build_lookup_key(r.metric, r.tags)
        map == aggs[g][r.op]
    IN  /\ r.pc = "loaded"
        /\ r.op \in {"count", "gauge"}
        /\ IF find(map, lk) # {}
           THEN /\ \E e \in find(map, lk) : record_found(t, g, e)
                /\ NEXT_ID' = NEXT_ID
           ELSE /\ rec' = [rec EXCEPT ![t] = [r EXCEPT !.pc = "write"]]
                /\ UNCHANGED <<aggs, NEXT_ID, win>>
        /\ UNCHANGED RecFrame

\* add_or_insert_entry_read_first, slow path: probe again under the exclusive
\* lock; on a miss insert a new key with its first value.
write_probe(t) ==
    LET r == rec[t]
        g == r.agg
        lk == build_lookup_key(r.metric, r.tags)
        map == aggs[g][r.op]
    IN  /\ r.pc = "write"
        /\ IF find(map, lk) # {}
           THEN /\ \E e \in find(map, lk) : record_found(t, g, e)
                /\ NEXT_ID' = NEXT_ID
           ELSE /\ aggs' = [aggs EXCEPT ![g][r.op] = @ \cup
                              {[key |-> into_key(lk, NEXT_ID),
                                val |-> first_value(r.op, r.value)]}]
                /\ NEXT_ID' = NEXT_ID + 1
                /\ Return(t, g)
        /\ UNCHANGED RecFrame

\* The second fetch_add of the gauge's record_fn, on the entry the probe found.
gauge_sum(t) ==
    LET r == rec[t]
        g == r.agg
    IN  /\ r.pc = "gsum"
        /\ aggs' = [aggs EXCEPT ![g].gauge =
                       {IF e.key.id = r.id
                        THEN [e EXCEPT !.val.sum = fetch_add(@, r.value)]
                        ELSE e : e \in @}]
        /\ Return(t, g)
        /\ UNCHANGED <<NEXT_ID>>
        /\ UNCHANGED RecFrame

\* add_or_insert_entry_write on an entry that the probe found: record_fn on
\* its cell; an Err is logged.
write_found(agg, e, value) ==
    [agg EXCEPT !.histograms = with_value(@, e, record(e.val, value))]

\* add_or_insert_entry_write on a miss: new_fn takes a cell of the precision,
\* record_fn records into it (an Err is logged), and the cell is inserted
\* under a new key with the id drawn from NEXT_ID.
write_insert(agg, lk, value, sig_fig, id) ==
    [agg EXCEPT
        !.histograms = @ \cup
            {[key |-> into_key(lk, id),
              val |-> record(get_histogram(agg, sig_fig), value)]},
        !.pool_histograms = pool_after_get(agg, sig_fig)]

\* add_or_insert_entry_write: under the shard's exclusive lock, record into
\* the cell found, or take a cell of the metric's precision, record into it and
\* insert it under a new key.
histogram_write(t) ==
    LET r == rec[t]
        g == r.agg
        lk == build_lookup_key(r.metric, r.tags)
        map == aggs[g].histograms
        sig_fig == sig_fig_of(r.metric)
    IN  /\ r.pc = "loaded"
        /\ r.op = "histogram"
        /\ IF find(map, lk) # {}
           THEN /\ \E e \in find(map, lk) :
                     aggs' = [aggs EXCEPT ![g] = write_found(@, e, r.value)]
                /\ NEXT_ID' = NEXT_ID
           ELSE /\ aggs' = [aggs EXCEPT
                               ![g] = write_insert(@, lk, r.value, sig_fig, NEXT_ID)]
                /\ NEXT_ID' = NEXT_ID + 1
        /\ Return(t, g)
        /\ UNCHANGED RecFrame

(***************************************************************************)
(* The worker: draining one aggregator.                                    *)
(***************************************************************************)
\* The orders in which an iteration may visit the entries of a map: the
\* order of DashMap::iter is that of the shards and their tables.
RECURSIVE Orders(_)
Orders(S) ==
    IF S = {} THEN {<<>>}
    ELSE UNION {{<<e>> \o o : o \in Orders(S \ {e})} : e \in S}

\* send_metric: one call of StatsWriterTrait::write, with the type character.
send_metric(metric, tags, value, metric_type) ==
    [metric |-> metric, tags |-> tags, value |-> value,
     metric_type |-> IF metric_type = "Count" THEN str_c ELSE str_g]

\* A removal that leaves the map as it is.
remove_from_map_skipped(map, key) == map

\* A removal that takes an entry of the key's hash, whatever its id.
remove_from_map_by_hash(map, key) ==
    LET found == {e \in map : e.key.hash = key.hash}
    IN  IF found = {} THEN map ELSE map \ {CHOOSE e \in found : TRUE}

\* MetricCollectorJob::remove_from_map: remove the entry of that hash whose
\* id is the key's.
remove_from_map(map, key) ==
    LET found == {e \in map : e.key.hash = key.hash /\ e.key.id = key.id}
    IN  IF found = {} THEN map ELSE map \ {CHOOSE e \in found : TRUE}

RECURSIVE remove_keys(_, _)
remove_keys(map, keys) ==
    IF keys = <<>> THEN map
    ELSE remove_keys(remove_from_map(map, Head(keys)), Tail(keys))

\* process_count, the write calls: one for every entry with value > 0.
RECURSIVE count_writes(_)
count_writes(order) ==
    IF order = <<>> THEN <<>>
    ELSE LET e == Head(order) IN
         (IF e.val > 0
          THEN <<send_metric(<<e.key.metric>>, e.key.joined_tags,
                             format(e.val), "Count")>>
          ELSE <<>>) \o count_writes(Tail(order))

\* No key is listed for removal.
count_keys_none(order) == <<>>

\* process_count, keys_to_remove: the key of every entry with value 0.
RECURSIVE count_keys(_)
count_keys(order) ==
    IF order = <<>> THEN <<>>
    ELSE (IF Head(order).val > 0 THEN <<>> ELSE <<to_key(Head(order).key)>>)
         \o count_keys(Tail(order))

\* A counter drain that stores nothing and removes nothing.
process_count_kept(map, order) == map

\* process_count, the map: written entries are stored 0, the listed keys are
\* removed.
process_count(map, order) ==
    remove_keys({IF e.val > 0 THEN [e EXCEPT !.val = 0] ELSE e : e \in map},
                count_keys(order))

\* The sum in place of the average.
gauge_value_sum(sum, n) == sum

\* process_gauge: entry.sum.load() / count, the u64 division.
gauge_value(sum, n) == sum \div n

\* process_gauge, the write calls: sum / count for every entry with count > 0.
RECURSIVE gauge_writes(_)
gauge_writes(order) ==
    IF order = <<>> THEN <<>>
    ELSE LET e == Head(order) IN
         (IF e.val.count > 0
          THEN <<send_metric(<<e.key.metric>>, e.key.joined_tags,
                             format(gauge_value(e.val.sum, e.val.count)), "Gauge")>>
          ELSE <<>>) \o gauge_writes(Tail(order))

RECURSIVE gauge_keys(_)
gauge_keys(order) ==
    IF order = <<>> THEN <<>>
    ELSE (IF Head(order).val.count > 0 THEN <<>> ELSE <<to_key(Head(order).key)>>)
         \o gauge_keys(Tail(order))

process_gauge(map, order) ==
    remove_keys({IF e.val.count > 0 THEN [e EXCEPT !.val = [count |-> 0, sum |-> 0]]
                 ELSE e : e \in map},
                gauge_keys(order))

\* Histogram::value_at_quantile(num / 100): the recorded value at which the
\* running count reaches ceil(quantile * len), at least 1.  (The values of the
\* model lie below the histogram's unit resolution, where every value is its
\* own bucket.)
value_at_quantile(h, num) ==
    LET c == (num * Len(h) + 99) \div 100
    IN  h[max(c, 1)]

\* The five write calls with .max ahead of .min.
RECURSIVE histogram_writes_unordered(_)
histogram_writes_unordered(order) ==
    IF order = <<>> THEN <<>>
    ELSE LET e == Head(order)
             m == e.key.metric
             t == e.key.joined_tags
             h == e.val.histogram
         IN
         (IF Len(h) > 0
          THEN << send_metric(<<m, sfx_count>>, t, format(Len(h)), "Count"),
                  send_metric(<<m, sfx_max>>, t, format(e.val.max), "Gauge"),
                  send_metric(<<m, sfx_avg>>, t, format(value_at_quantile(h, 50)), "Gauge"),
                  send_metric(<<m, sfx_p99>>, t, format(value_at_quantile(h, 99)), "Gauge"),
                  send_metric(<<m, sfx_min>>, t, format(e.val.min), "Gauge") >>
          ELSE <<>>) \o histogram_writes_unordered(Tail(order))

\* process_histogram, the write calls: five for every cell with len > 0.
RECURSIVE histogram_writes(_)
histogram_writes(order) ==
    IF order = <<>> THEN <<>>
    ELSE LET e == Head(order)
             m == e.key.metric
             t == e.key.joined_tags
             h == e.val.histogram
         IN
         (IF Len(h) > 0
          THEN << send_metric(<<m, sfx_count>>, t, format(Len(h)), "Count"),
                  send_metric(<<m, sfx_min>>, t, format(e.val.min), "Gauge"),
                  send_metric(<<m, sfx_avg>>, t, format(value_at_quantile(h, 50)), "Gauge"),
                  send_metric(<<m, sfx_p99>>, t, format(value_at_quantile(h, 99)), "Gauge"),
                  send_metric(<<m, sfx_max>>, t, format(e.val.max), "Gauge") >>
          ELSE <<>>) \o histogram_writes(Tail(order))

RECURSIVE histogram_keys(_)
histogram_keys(order) ==
    IF order = <<>> THEN <<>>
    ELSE (IF Len(Head(order).val.histogram) > 0 THEN <<>>
          ELSE <<to_key(Head(order).key)>>)
         \o histogram_keys(Tail(order))

process_histogram(map, order) ==
    remove_keys({IF Len(e.val.histogram) > 0 THEN [e EXCEPT !.val = reset(@)]
                 ELSE e : e \in map},
                histogram_keys(order))

\* A push of every removed cell to the bucket of the default precision.
RECURSIVE pool_push_default(_, _)
pool_push_default(pools, order) ==
    IF order = <<>> THEN pools
    ELSE LET e == Head(order) IN
         pool_push_default(IF Len(e.val.histogram) > 0 THEN pools
                           ELSE [pools EXCEPT ![default_sig_fig] = Append(@, e.val)],
                           Tail(order))

\* process_histogram, the pools: the cell of every removed key is pushed to the
\* bucket of its precision.
RECURSIVE pool_push(_, _)
pool_push(pools, order) ==
    IF order = <<>> THEN pools
    ELSE LET e == Head(order) IN
         pool_push(IF Len(e.val.histogram) > 0 THEN pools
                   ELSE [pools EXCEPT ![e.val.sig_fig] = Append(@, e.val)],
                   Tail(order))

\* process_data: the aggregator after the three maps have been drained, with
\* oc, og and oh the orders in which the maps were iterated.
process_data(agg, oc, og, oh) ==
    [count |-> process_count(agg.count, oc),
     gauge |-> process_gauge(agg.gauge, og),
     histograms |-> process_histogram(agg.histograms, oh),
     pool_histograms |-> pool_push(agg.pool_histograms, oh)]

\* process_data: the write calls made, counters, then gauges, then histograms.
process_writes(oc, og, oh) ==
    count_writes(oc) \o gauge_writes(og) \o histogram_writes(oh)

(***************************************************************************)
(* StatsWriterSimple, the writer process_data calls by default.            *)
(***************************************************************************)
\* The bytes of a sequence of strings, one after the other.
RECURSIVE Flatten(_)
Flatten(parts) ==
    IF parts = <<>> THEN <<>> ELSE Head(parts) \o Flatten(Tail(parts))

\* The loop "for metric in metrics { metric_len += metric.len() }".
RECURSIVE segments_len(_)
segments_len(metrics) ==
    IF metrics = <<>> THEN 0 ELSE Len(Head(metrics)) + segments_len(Tail(metrics))

\* A length that leaves the tag section out.
metric_len_untagged(prefix, metrics, tags, value, metric_type) ==
    Len(prefix) + Len(value) + Len(metric_type) + 3 + segments_len(metrics)

\* metric_len: the length of the line, 3 for ':', '|' and the newline and 2
\* more for "|#" when there are tags.
metric_len(prefix, metrics, tags, value, metric_type) ==
    Len(prefix) + Len(value) + Len(metric_type) + Len(tags) + 3
        + (IF tags # <<>> THEN 2 ELSE 0) + segments_len(metrics)

\* A tag section pushed whether or not there are tags.
push_tags_always(buf, tags) == buf \o <<ch_pipe, ch_hash>> \o tags

\* StatsWriterSimple::write: "|#" and the tags, pushed when tags is not empty.
push_tags(buf, tags) ==
    IF tags # <<>> THEN buf \o <<ch_pipe, ch_hash>> \o tags ELSE buf

\* StatsWriterSimple::write, "Build the metric string": the pushes onto
\* current_transmit.
push_metric(buf, prefix, metrics, tags, value, metric_type) ==
    push_tags(buf \o prefix \o Flatten(metrics) \o <<ch_colon>> \o value
                  \o <<ch_pipe>> \o metric_type,
              tags) \o <<ch_nl>>

\* A hand-over that keeps the buffer.
flush_current_transmit_kept(w, sock, sent) ==
    [writer |-> w, socket |-> Append(sock, w.current_transmit), result |-> "Ok",
     ret |-> Len(w.current_transmit)]

\* StatsWriterSimple::flush_current_transmit: a non-empty buffer is handed to
\* the socket and cleared, unless the send fails; ret is the usize returned,
\* Ok(0) for an empty buffer and what send_to returned otherwise.
flush_current_transmit(w, sock, sent) ==
    IF w.current_transmit = <<>>
    THEN [writer |-> w, socket |-> sock, result |-> "Ok", ret |-> 0]
    ELSE IF sent
    THEN [writer |-> [w EXCEPT !.current_transmit = <<>>],
          socket |-> Append(sock, w.current_transmit), result |-> "Ok",
          ret |-> Len(w.current_transmit)]
    ELSE [writer |-> w, socket |-> sock, result |-> "Err", ret |-> 0]

\* StatsWriterSimple::write on writer w: a line longer than a packet is
\* refused; a buffer the line does not fit in is handed over first, and the
\* call fails without pushing when that send fails; then the line is pushed.
write(w, sock, metrics, tags, value, metric_type, sent) ==
    LET ml == metric_len(w.stats_prefix, metrics, tags, value, metric_type)
        f == IF Len(w.current_transmit) + ml > w.max_udp_packet_size
             THEN flush_current_transmit(w, sock, sent)
             ELSE [writer |-> w, socket |-> sock, result |-> "Ok"]
    IN  IF ml > w.max_udp_packet_size \/ f.result = "Err"
        THEN [writer |-> w, socket |-> sock, result |-> "Err"]
        ELSE [writer |-> [f.writer EXCEPT !.current_transmit =
                             push_metric(@, w.stats_prefix, metrics, tags, value,
                                         metric_type)],
              socket |-> f.socket,
              result |-> "Ok"]

\* A guard whose drop leaves the writer as it is.
StatsGuard_drop_skipped(w) == w

\* Drop for StatsGuard: the writer's reset, which for StatsWriterSimple clears
\* the buffer.
StatsGuard_drop(w) == [w EXCEPT !.current_transmit = <<>>]

\* The write calls of process_data on the acquired writer, one after the
\* other; results collects what each call returned.
RECURSIVE write_all(_, _, _)
write_all(f, lines, sent) ==
    IF lines = <<>> THEN f
    ELSE LET c == Head(lines)
             r == write(f.writer, f.socket, c.metric, c.tags, c.value,
                        c.metric_type, sent)
         IN  write_all([writer |-> r.writer, socket |-> r.socket,
                        results |-> Append(f.results, r.result)],
                       Tail(lines), sent)

\* process_data on the writer: acquire, the write calls, flush, and the drop
\* of the guard.  sent tells whether the sends of this cycle succeed.
flush_cycle(w, sock, lines, sent) ==
    LET f == write_all([writer |-> w, socket |-> sock, results |-> <<>>], lines, sent)
        g == flush_current_transmit(f.writer, f.socket, sent)
    IN  [writer |-> StatsGuard_drop(g.writer),
         socket |-> g.socket,
         results |-> Append(f.results, g.result)]

(***************************************************************************)
(* The worker: initialize_job and send_metrics.                            *)
(***************************************************************************)
\* An unwrap that never succeeds.
try_unwrap_never(g) == g # g

\* An unwrap that does not look at the reference count.
try_unwrap_unchecked(g) == g = g

\* Arc::try_unwrap succeeds iff the job's Arc is the only one: no recorder
\* inside a call holds a guard on that generation.
try_unwrap(g) == \A t \in Threads : rec[t].agg # g

\* The number of a newly created Aggregator.
NewGen == CHOOSE n \in 1..(Cardinality(DOMAIN aggs) + 1) : n \notin DOMAIN aggs

\* The published Aggregator published again: the swap changes nothing.
take_available_published == current_aggregator

\* A new Aggregator at every swap, the available one left aside.
take_available_ignored == NewGen

\* available_aggregator.take().unwrap_or_default(): the generation to publish.
take_available ==
    IF available_aggregator # None THEN available_aggregator ELSE NewGen

\* What a drain leaves alone, and what the other steps of the worker do.
DrainFrame == <<NEXT_ID, rec, sender, job_handle, ops, calls, ticks, wcall, applied>>

WorkerFrame == <<DrainFrame, stats_writer, socket>>

\* UdpSocket::bind(bind_addr)?: the worker enters its loop, or the thread
\* returns the error and never flushes.
bind ==
    /\ wpc = "start"
    /\ \E ok \in BOOLEAN : wpc' = IF ok THEN "idle" ELSE "done"
    /\ UNCHANGED <<aggs, current_aggregator, pending_to_process_aggregator,
                   available_aggregator, finish, written, win, drained,
                   flushed>>
    /\ UNCHANGED WorkerFrame

\* select!: the long tick fired.
large_tick ==
    /\ wpc = "idle"
    /\ ticks < MaxTicks
    /\ ticks' = ticks + 1
    /\ wpc' = "run"
    /\ UNCHANGED <<aggs, current_aggregator, pending_to_process_aggregator,
                   available_aggregator, finish, written, win, drained,
                   flushed, stats_writer, socket, wcall, applied, NEXT_ID, rec, sender,
                   job_handle, ops, calls>>

\* select!: recv(receiver) returned because the sender was dropped.
recv_shutdown ==
    /\ wpc = "idle"
    /\ ~sender
    /\ finish' = TRUE
    /\ wpc' = "run"
    /\ UNCHANGED <<aggs, current_aggregator, pending_to_process_aggregator,
                   available_aggregator, written, win, drained, flushed>>
    /\ UNCHANGED WorkerFrame

\* send_metrics with no pending aggregator: publish the available (or a new)
\* aggregator, keep the one that was published as pending; WouldBlock.
swap ==
    /\ wpc = "run"
    /\ pending_to_process_aggregator = None
    /\ LET g == take_available IN
       /\ aggs' = IF g \in DOMAIN aggs THEN aggs ELSE aggs @@ (g :> with_hasher_builder)
       /\ win' = IF g \in DOMAIN win THEN win ELSE win @@ (g :> EmptyBag)
       /\ current_aggregator' = g
    /\ pending_to_process_aggregator' = current_aggregator
    /\ available_aggregator' = None
    /\ UNCHANGED <<wpc, finish, written, drained, flushed>>
    /\ UNCHANGED WorkerFrame

\* send_metrics with a pending aggregator that a recorder still holds:
\* WouldBlock, and the loop waits for the short tick.
would_block ==
    /\ wpc = "run"
    /\ pending_to_process_aggregator # None
    /\ ~try_unwrap(pending_to_process_aggregator)
    /\ UNCHANGED vars

\* send_metrics with a pending aggregator held by the job alone: drain it,
\* keep it as available; Ok, and the loop breaks or, after a shutdown signal,
\* initialize_job returns and drops the job.
drain ==
    /\ wpc = "run"
    /\ pending_to_process_aggregator # None
    /\ try_unwrap(pending_to_process_aggregator)
    /\ LET g == pending_to_process_aggregator
           agg == aggs[g]
       IN  \E oc \in Orders(agg.count), og \in Orders(agg.gauge),
              oh \in Orders(agg.histograms), sent \in BOOLEAN :
             LET avail == IF finish THEN None ELSE g
                 live == Referenced(current_aggregator, None, avail, rec)
                 lines == process_writes(oc, og, oh)
                 cycle == flush_cycle(stats_writer, socket, lines, sent)
             IN  /\ sent \/ lines # <<>>
                 /\ stats_writer' = cycle.writer
                 /\ socket' = cycle.socket
                 /\ written' = lines
                 /\ aggs' = Restrict([aggs EXCEPT ![g] = process_data(agg, oc, og, oh)],
                                     live)
                 /\ win' = Restrict([win EXCEPT ![g] = EmptyBag], live)
                 /\ drained' = win[g]
                 /\ flushed' = Append(flushed,
                        [drained |-> win[g], written |-> lines,
                         results |-> cycle.results])
                 /\ available_aggregator' = avail
    /\ pending_to_process_aggregator' = None
    /\ wpc' = IF finish THEN "done" ELSE "idle"
    /\ UNCHANGED <<current_aggregator, finish>>
    /\ UNCHANGED DrainFrame

(***************************************************************************)
(* Shutdown: Drop for MetricCollector.                                     *)
(***************************************************************************)
\* drop(self.sender.take()).  Drop has the collector exclusively: no
\* recording call is in progress and none starts afterwards.
drop_sender ==
    /\ sender
    /\ \A t \in Threads : rec[t].pc = "idle"
    /\ sender' = FALSE
    /\ UNCHANGED <<aggs, current_aggregator, pending_to_process_aggregator,
                   available_aggregator, NEXT_ID, rec, wpc, finish, job_handle,
                   written, ops, calls, ticks, win, drained, flushed,
                   stats_writer, socket, wcall, applied>>

\* handle.join() returns: the worker thread has ended.
join ==
    /\ ~sender
    /\ job_handle
    /\ wpc = "done"
    /\ job_handle' = FALSE
    /\ UNCHANGED <<aggs, current_aggregator, pending_to_process_aggregator,
                   available_aggregator, NEXT_ID, rec, wpc, finish, sender,
                   written, ops, calls, ticks, win, drained, flushed,
                   stats_writer, socket, wcall, applied>>

\* A drop body that does not take the two fields: it closes and joins
\* whatever it finds.
Drop_drop_untaken(s, h) ==
    [sender |-> s, job_handle |-> h, closes |-> TRUE, joins |-> TRUE]

\* The body of Drop::drop on the fields sender and job_handle (TRUE is Some):
\* both are taken; the channel is closed by this run if a sender was taken,
\* and the worker is joined by this run if a handle was taken.
Drop_drop(s, h) ==
    [sender |-> FALSE, job_handle |-> FALSE, closes |-> s, joins |-> h]

\* The body of Drop::drop run on a collector whose drop has already run:
\* both fields are None.
drop_again ==
    /\ ~sender
    /\ ~job_handle
    /\ LET d == Drop_drop(sender, job_handle) IN
       /\ sender' = d.sender
       /\ job_handle' = d.job_handle
       /\ applied' = [fn |-> "Drop::drop",
                      arg |-> [sender |-> sender, job_handle |-> job_handle],
                      ret |-> d]
    /\ UNCHANGED <<aggs, current_aggregator, pending_to_process_aggregator,
                   available_aggregator, NEXT_ID, rec, wpc, finish,
                   written, ops, calls, ticks, win, drained, flushed,
                   stats_writer, socket, wcall>>

Next ==
    \/ \E t \in Threads : count_add(t)
    \/ \E t \in Threads : count(t)
    \/ \E t \in Threads : gauge(t)
    \/ \E t \in Threads : histogram(t)
    \/ \E t \in Threads : read_probe(t)
    \/ \E t \in Threads : write_probe(t)
    \/ \E t \in Threads : gauge_sum(t)
    \/ \E t \in Threads : histogram_write(t)
    \/ bind
    \/ large_tick
    \/ recv_shutdown
    \/ swap
    \/ would_block
    \/ drain
    \/ drop_sender
    \/ join
    \/ drop_again

Spec == Init /\ [][Next]_vars

SpecMixed == InitMixed /\ [][Next]_vars

\* The scheduling of the threads: the worker thread runs when it can (it
\* binds, sees a closed channel at its select, swaps, drains), and a join on
\* an ended thread returns.
\* (Weak fairness of drain is written out, with send_metrics' condition for
\* draining in place of ENABLED.)
drain_ready ==
    /\ wpc = "run"
    /\ pending_to_process_aggregator # None
    /\ try_unwrap(pending_to_process_aggregator)

Fairness ==
    /\ WF_vars(bind)
    /\ WF_vars(recv_shutdown)
    /\ WF_vars(swap)
    /\ ([]<>(~drain_ready) \/ []<><<drain>>_vars)
    /\ WF_vars(join)

SpecLive == Init /\ [][Next]_vars /\ Fairness

\* Every recording call that has started returns: a thread inside a call
\* takes its next step.
CallsReturn ==
    \A t \in Threads :
        /\ WF_vars(read_probe(t))
        /\ WF_vars(write_probe(t))
        /\ WF_vars(gauge_sum(t))
        /\ WF_vars(histogram_write(t))

SpecReturns == Init /\ [][Next]_vars /\ Fairness /\ CallsReturn

(***************************************************************************)
(* The built-in writers: StatsWriterSimple and StatsWriterLinux.            *)
(*                                                                         *)
(* process_data acquires the writer, calls write for every line, then      *)
(* flush, and the guard's drop calls reset.  The writer is specified on    *)
(* its own, driven through that protocol with write calls of every shape.  *)
(***************************************************************************)
\* The configurations and the arguments of the write calls.
Prefixes == {<<>>, <<112>>}
PacketSizes == {14, U16_MAX}
BatchSizes == {1, 2}
WriterTypes == {"Simple", "LinuxBatch"}
WriteTags == {<<>>, tag_ab \o <<ch_comma>> \o tag_b}
WriteValues == {format(U64_MAX)}
\* The metric segments and the type of a counter's line and of a histogram's
\* .min line.
WriteShapes == {<<<<metric_m>>, str_c>>, <<<<metric_m, sfx_min>>, str_g>>}

\* Transmit::push: the part is appended and its length added to the u16 len
\* (a wrapping addition where overflow is not checked).
Transmit_push(t, part) ==
    [t EXCEPT !.parts = Append(@, part),
              !.len = (@ + Len(part)) % (U16_MAX + 1)]

RECURSIVE Transmit_push_all(_, _)
Transmit_push_all(t, parts) ==
    IF parts = <<>> THEN t
    ELSE Transmit_push_all(Transmit_push(t, Head(parts)), Tail(parts))

\* StatsWriterLinux::write: the slices pushed onto current_transmit.
push_slices(t, prefix, metrics, tags, value, metric_type) ==
    Transmit_push_all(t,
        <<prefix>> \o metrics \o <<<<ch_colon>>, value, <<ch_pipe>>, metric_type>>
            \o (IF tags # <<>> THEN <<<<ch_pipe, ch_hash>>, tags>> ELSE <<>>)
            \o <<<<ch_nl>>>>)

\* Transmit::enough_space_for: self.len + space <= max, the sum on u16.
enough_space_for(t, space, max_udp_package_size) ==
    (t.len + space) % (U16_MAX + 1) <= max_udp_package_size

\* Vec::push beyond the capacity grows the buffer: the capacity doubles, to 4
\* at least.
grown(capacity) == max(2 * capacity, 4)

\* StatsWriterLinux::queue_current_transmit: a transmit from the pool (they
\* are reset when pooled) or a new one becomes current, the old current one
\* is queued.
queue_current_transmit(w) ==
    [w EXCEPT !.queued_transmits = Append(@, w.current_transmit),
              !.current_transmit = Transmit_new,
              !.capacity = IF Len(w.queued_transmits) = @ THEN grown(@) ELSE @]

\* A queued transmit holds slices of an earlier cycle.
stale_queued(w) ==
    \E i \in DOMAIN w.queued_transmits : w.queued_transmits[i].stale

\* StatsWriterLinux::flush_queued_transmits: one header per queued transmit
\* is submitted to sendmmsg (batch is their number), which accepts the first
\* k datagrams (k = 0: it fails and the queue is kept); then every queued
\* transmit is reset and pooled.  ret is the usize returned: 0 for an empty
\* queue, otherwise what write_mvec returned, which is sendmmsg's result, the
\* number of datagrams it accepted.
flush_queued_transmits(w, sock, k) ==
    IF w.queued_transmits = <<>>
    THEN [writer |-> w, socket |-> sock, result |-> "Ok", batch |-> 0,
          stale |-> FALSE, ret |-> 0]
    ELSE IF k = 0
    THEN [writer |-> w, socket |-> sock, result |-> "Err",
          batch |-> Len(w.queued_transmits), stale |-> stale_queued(w),
          ret |-> 0]
    ELSE [writer |-> [w EXCEPT !.queued_transmits = <<>>],
          socket |-> sock \o [i \in 1..min(k, Len(w.queued_transmits)) |->
                                 Flatten(w.queued_transmits[i].parts)],
          result |-> "Ok",
          batch |-> Len(w.queued_transmits), stale |-> stale_queued(w),
          ret |-> min(k, Len(w.queued_transmits))]

\* The caller after a write call.
Called(metrics, tags, value, metric_type, result) ==
    [n |-> wcall.n + 1,
     phase |-> IF result = "Panic" THEN "panicked" ELSE "open",
     metrics |-> metrics, tags |-> tags, value |-> value,
     metric_type |-> metric_type, result |-> result, batch |-> 0,
     stale |-> FALSE, ret |-> 0, mark |-> wcall.mark]

CollectorVarsOnly == <<aggs, current_aggregator, pending_to_process_aggregator,
                       available_aggregator, NEXT_ID, rec, wpc, finish, sender,
                       job_handle, written, ops, calls, ticks, win, drained,
                       flushed>>

CollectorVars == <<CollectorVarsOnly, applied>>

\* StatsWriterSimple::write
StatsWriterSimple_write ==
    /\ stats_writer.writer_type = "Simple"
    /\ wcall.phase = "open"
    /\ wcall.n < MaxWrites
    /\ \E shape \in WriteShapes, tags \in WriteTags, value \in WriteValues,
          sent \in BOOLEAN :
         LET metrics == shape[1]
             metric_type == shape[2]
             f == write(stats_writer, socket, metrics, tags, value, metric_type, sent)
         IN  /\ stats_writer' = f.writer
             /\ socket' = f.socket
             /\ wcall' = Called(metrics, tags, value, metric_type, f.result)
    /\ UNCHANGED CollectorVars

\* StatsWriterLinux::write.  Where self.len + space exceeds the u16 the build
\* decides: with overflow checks the addition panics, without it wraps.
StatsWriterLinux_write ==
    /\ stats_writer.writer_type = "LinuxBatch"
    /\ wcall.phase = "open"
    /\ wcall.n < MaxWrites
    /\ \E shape \in WriteShapes, tags \in WriteTags, value \in WriteValues,
          k \in 0..MaxWrites, checked \in BOOLEAN :
         LET metrics == shape[1]
             metric_type == shape[2]
             w == stats_writer
             ml == metric_len(w.stats_prefix, metrics, tags, value, metric_type)
             w1 == IF enough_space_for(w.current_transmit, ml, w.max_udp_packet_size)
                   THEN w ELSE queue_current_transmit(w)
             w2 == [w1 EXCEPT !.current_transmit =
                       push_slices(@, w.stats_prefix, metrics, tags, value,
                                   metric_type)]
             f == IF Len(w2.queued_transmits) = w2.capacity
                  THEN flush_queued_transmits(w2, socket, k)
                  ELSE [writer |-> w2, socket |-> socket, result |-> "Ok", batch |-> 0,
                        stale |-> FALSE]
         IN  IF ml > w.max_udp_packet_size
             THEN /\ wcall' = Called(metrics, tags, value, metric_type, "Err")
                  /\ UNCHANGED <<stats_writer, socket>>
             ELSE IF w.current_transmit.len + ml > U16_MAX /\ checked
             THEN /\ wcall' = Called(metrics, tags, value, metric_type, "Panic")
                  /\ UNCHANGED <<stats_writer, socket>>
             ELSE /\ stats_writer' = f.writer
                  /\ socket' = f.socket
                  /\ wcall' = [Called(metrics, tags, value, metric_type, f.result)
                                  EXCEPT !.batch = f.batch, !.stale = f.stale]
    /\ UNCHANGED CollectorVars

\* StatsWriterSimple::flush
StatsWriterSimple_flush ==
    /\ stats_writer.writer_type = "Simple"
    /\ wcall.phase = "open"
    /\ \E sent \in BOOLEAN :
         LET f == flush_current_transmit(stats_writer, socket, sent)
         IN  /\ stats_writer' = f.writer
             /\ socket' = f.socket
             /\ wcall' = [wcall EXCEPT !.phase = "flushed", !.result = f.result,
                                       !.ret = f.ret]
    /\ UNCHANGED CollectorVars

\* StatsWriterLinux::flush: a current transmit of non-zero len is queued, then
\* the queue is sent.
StatsWriterLinux_flush ==
    /\ stats_writer.writer_type = "LinuxBatch"
    /\ wcall.phase = "open"
    /\ \E k \in 0..MaxWrites :
         LET w == stats_writer
             w1 == IF w.current_transmit.len > 0 THEN queue_current_transmit(w)
                   ELSE w
             f == flush_queued_transmits(w1, socket, k)
         IN  /\ stats_writer' = f.writer
             /\ socket' = f.socket
             /\ wcall' = [wcall EXCEPT !.phase = "flushed", !.result = f.result,
                                       !.batch = f.batch, !.stale = f.stale,
                                       !.ret = f.ret]
    /\ UNCHANGED CollectorVars

\* StatsGuard's drop after the flush: StatsWriterSimple::reset clears the
\* buffer.
StatsWriterSimple_reset ==
    /\ stats_writer.writer_type = "Simple"
    /\ wcall.phase = "flushed"
    /\ stats_writer' = [stats_writer EXCEPT !.current_transmit = <<>>]
    /\ wcall' = [wcall EXCEPT !.phase = "open", !.mark = Len(socket)]
    /\ UNCHANGED socket
    /\ UNCHANGED CollectorVars

\* The end of process_data after the flush: the arena of the values is reset
\* (self.bump.reset()) and StatsGuard's drop calls StatsWriterLinux::reset,
\* which clears the queue and leaves current_transmit as it is: the parts
\* it still holds are slices of the cycle that ends here.
StatsWriterLinux_reset ==
    /\ stats_writer.writer_type = "LinuxBatch"
    /\ wcall.phase = "flushed"
    /\ stats_writer' = [stats_writer EXCEPT
                           !.queued_transmits = <<>>,
                           !.current_transmit.stale =
                               stats_writer.current_transmit.parts # <<>>]
    /\ wcall' = [wcall EXCEPT !.phase = "open", !.mark = Len(socket)]
    /\ UNCHANGED socket
    /\ UNCHANGED CollectorVars

\* A writer of any built-in type and configuration, in a collector that stays
\* as constructed.
InitWriter ==
    /\ InitCollector
    /\ ops = {}
    /\ \E writer_type \in WriterTypes, stats_prefix \in Prefixes,
          max_udp_packet_size \in PacketSizes, max_udp_batch_size \in BatchSizes :
         stats_writer = StatsWriterHolder_new(writer_type, stats_prefix,
                            max_udp_packet_size, max_udp_batch_size)
    /\ socket = <<>>
    /\ wcall = NoCall

NextWriter ==
    \/ StatsWriterSimple_write
    \/ StatsWriterLinux_write
    \/ StatsWriterSimple_flush
    \/ StatsWriterLinux_flush
    \/ StatsWriterSimple_reset
    \/ StatsWriterLinux_reset

SpecWriter == InitWriter /\ [][NextWriter]_vars

(***************************************************************************)
(* One shard of a counter or gauge map, lock by lock.                      *)
(*                                                                         *)
(* add_or_insert_entry_read_first on keys of one shard, with the shard's   *)
(* lock and the allocation of its table made explicit: the probe under the *)
(* shared lock, the record through the bucket the probe returned, and the  *)
(* section under the exclusive lock, whose find_or_find_insert_slot may    *)
(* resize the table and so move every entry to a new allocation.           *)
(***************************************************************************)
\* The recorder threads at the shard, and the number of calls they start in
\* one behaviour.
ShardThreads == {1, 2, 3}
MaxShardCalls == 3

\* count_add or gauge, its first statements: as Load, for the threads at the
\* shard.
shard_record(t) ==
    \E op \in ops, metric \in Metrics, value \in Values, tags \in TagSlices :
        /\ rec[t].pc = "idle"
        /\ \A u \in ShardThreads : u < t => rec[u].pc # "idle"
        /\ calls < MaxShardCalls
        /\ calls' = calls + 1
        /\ rec' = [rec EXCEPT ![t] =
                     [pc |-> "loaded", op |-> op, metric |-> metric, value |-> value,
                      raw |-> tags, tags |-> sort_unstable(tags),
                      agg |-> current_aggregator, id |-> 0]]
        /\ UNCHANGED <<aggs, current_aggregator, pending_to_process_aggregator,
                       available_aggregator, NEXT_ID, wpc, finish, sender,
                       job_handle, written, ops, ticks, win, drained, flushed,
                       stats_writer, socket, wcall, applied>>

\* The atomics record_fn adds to, in order: the counter itself; the gauge's
\* count, then its sum.
record_fn_adds(op) == IF op = "count" THEN <<"val">> ELSE <<"count", "sum">>

\* One fetch_add of record_fn on the value of an entry.
record_fn_add(val, op, field, value) ==
    IF op = "count" THEN fetch_add(val, value)
    ELSE IF field = "count" THEN [val EXCEPT !.count = fetch_add(@, 1)]
    ELSE [val EXCEPT !.sum = fetch_add(@, value)]

\* record_fn on a value, every fetch_add of it.
record_fn(val, op, value) ==
    IF op = "count" THEN fetch_add(val, value)
    ELSE [count |-> fetch_add(val.count, 1), sum |-> fetch_add(val.sum, value)]

\* Fast path, the probe: find under the shared lock; a hit leaves the thread
\* with the bucket (a pointer into the table's allocation) and the lock
\* released, a miss sends it to the exclusive lock.
shard_read_find(t) ==
    LET r == rec[t]
        g == r.agg
        lk == build_lookup_key(r.metric, r.tags)
        map == aggs[g][r.op]
    IN  /\ r.pc = "loaded"
        /\ r.op \in {"count", "gauge"}
        /\ IF find(map, lk) # {}
           THEN \E e \in find(map, lk) :
                  rec' = [rec EXCEPT ![t] =
                            [pc |-> "found",
                             bucket |-> [id |-> e.key.id, valid |-> TRUE],
                             adds |-> record_fn_adds(r.op)] @@ r]
           ELSE rec' = [rec EXCEPT ![t] = [r EXCEPT !.pc = "write"]]
        /\ UNCHANGED <<aggs, NEXT_ID, win>>
        /\ UNCHANGED RecFrame

\* Fast path, the record: the next fetch_add of record_fn through the bucket.
\* Through a bucket of the table's present allocation it reaches the entry.
\* Through a bucket of an allocation that a resize has freed the behaviour
\* is undefined: the addition is lost in the freed memory, or it lands on
\* memory that is in use again (an entry of the map stands for it), or the
\* thread faults.
shard_bucket_record(t) ==
    LET r == rec[t]
        g == r.agg
        map == aggs[g][r.op]
        field == Head(r.adds)
        after == IF Len(r.adds) = 1 THEN "return" ELSE "found"
    IN  /\ r.pc = "found"
        /\ IF r.bucket.valid
           THEN /\ aggs' = [aggs EXCEPT ![g][r.op] =
                      {IF e.key.id = r.bucket.id
                       THEN [e EXCEPT !.val = record_fn_add(@, r.op, field, r.value)]
                       ELSE e : e \in map}]
                /\ IF after = "return" THEN Return(t, g)
                   ELSE /\ rec' = [rec EXCEPT ![t].adds = Tail(@)]
                        /\ win' = win
           ELSE \/ /\ aggs' = aggs
                   /\ IF after = "return" THEN Return(t, g)
                      ELSE /\ rec' = [rec EXCEPT ![t].adds = Tail(@)]
                           /\ win' = win
                \/ /\ \E x \in map :
                        aggs' = [aggs EXCEPT ![g][r.op] =
                           {IF e = x
                            THEN [e EXCEPT !.val = record_fn_add(@, r.op, field, r.value)]
                            ELSE e : e \in map}]
                   /\ IF after = "return" THEN Return(t, g)
                      ELSE /\ rec' = [rec EXCEPT ![t].adds = Tail(@)]
                           /\ win' = win
                \/ /\ aggs' = aggs
                   /\ rec' = [rec EXCEPT ![t].pc = "fault"]
                   /\ win' = win
        /\ UNCHANGED NEXT_ID
        /\ UNCHANGED RecFrame

\* The buckets the other threads hold after find_or_find_insert_slot: a
\* resize moves the entries to a new allocation and frees the old one, which
\* the buckets taken before it still point into.
invalidated(t, g, op, resized) ==
    [u \in ShardThreads |->
        IF /\ u # t
           /\ resized
           /\ rec[u].pc = "found"
           /\ rec[u].agg = g
           /\ rec[u].op = op
        THEN [rec[u] EXCEPT !.bucket.valid = FALSE]
        ELSE rec[u]]

\* Slow path: under the exclusive lock, find_or_find_insert_slot (it takes
\* the hasher because it may resize the table), then record_fn on the entry
\* found, or on a new value that is inserted under a new key; the guard is
\* dropped when the function returns.
shard_write(t) ==
    LET r == rec[t]
        g == r.agg
        lk == build_lookup_key(r.metric, r.tags)
        map == aggs[g][r.op]
        zero == IF r.op = "count" THEN 0 ELSE [count |-> 0, sum |-> 0]
    IN  /\ r.pc = "write"
        /\ \E resized \in BOOLEAN :
             /\ IF find(map, lk) # {}
                THEN /\ \E e \in find(map, lk) :
                          aggs' = [aggs EXCEPT ![g][r.op] =
                                     with_value(@, e, record_fn(e.val, r.op, r.value))]
                     /\ NEXT_ID' = NEXT_ID
                ELSE /\ aggs' = [aggs EXCEPT ![g][r.op] = @ \cup
                                   {[key |-> into_key(lk, NEXT_ID),
                                     val |-> record_fn(zero, r.op, r.value)]}]
                     /\ NEXT_ID' = NEXT_ID + 1
             /\ rec' = [invalidated(t, g, r.op, resized) EXCEPT ![t] = IdleRec]
             /\ win' = [win EXCEPT ![g] = @ (+) SetToBag({RawCall(r)})]
        /\ UNCHANGED RecFrame

\* Recorders of one kind of metric on one aggregator, whose keys fall in one
\* shard; the worker has not started.
NextShard ==
    \/ \E t \in ShardThreads : shard_record(t)
    \/ \E t \in ShardThreads : shard_read_find(t)
    \/ \E t \in ShardThreads : shard_bucket_record(t)
    \/ \E t \in ShardThreads : shard_write(t)

InitShard ==
    /\ ops \in {{"count"}, {"gauge"}}
    /\ aggs = (1 :> with_hasher_builder)
    /\ NEXT_ID = 0
    /\ win = (1 :> EmptyBag)
    /\ current_aggregator = 1
    /\ pending_to_process_aggregator = None
    /\ available_aggregator = None
    /\ rec = [t \in ShardThreads |-> IdleRec]
    /\ wpc = "start"
    /\ finish = FALSE
    /\ sender = TRUE
    /\ job_handle = TRUE
    /\ written = <<>>
    /\ calls = 0
    /\ ticks = 0
    /\ drained = EmptyBag
    /\ flushed = <<>>
    /\ applied = NotApplied
    /\ InitStatsWriter

SpecShard == InitShard /\ [][NextShard]_vars

(***************************************************************************)
(* The collector recording on several keys: two metric names, of which     *)
(* one has a configured precision, and tags that make keys of different    *)
(* content collide on their hash; the long tick fires often enough for an  *)
(* evicted histogram cell to be taken from its pool again.                 *)
(***************************************************************************)
\* The metric names of the application: "m" and "n".
KeyMetrics == {metric_m, metric_n}

\* The tag slices the calls pass, one of them out of order, and their value.
KeyTagSlices == {<<>>, <<tag_b, tag_ab>>}
KeyValues == {1}

\* The long ticks of one behaviour.
MaxKeyTicks == 4

\* count_add, gauge or histogram on one of the keys, its first statements.
key_record(t) ==
    \E op \in ops, metric \in KeyMetrics, value \in KeyValues, tags \in KeyTagSlices :
        Load(t, op, metric, value, tags)

\* select!: the long tick fired.
key_tick ==
    /\ wpc = "idle"
    /\ ticks < MaxKeyTicks
    /\ ticks' = ticks + 1
    /\ wpc' = "run"
    /\ UNCHANGED <<aggs, current_aggregator, pending_to_process_aggregator,
                   available_aggregator, finish, written, win, drained,
                   flushed, stats_writer, socket, wcall, applied, NEXT_ID, rec, sender,
                   job_handle, ops, calls>>

NextKeys ==
    \/ \E t \in Threads : key_record(t)
    \/ \E t \in Threads : read_probe(t)
    \/ \E t \in Threads : write_probe(t)
    \/ \E t \in Threads : gauge_sum(t)
    \/ \E t \in Threads : histogram_write(t)
    \/ bind
    \/ key_tick
    \/ recv_shutdown
    \/ swap
    \/ would_block
    \/ drain
    \/ drop_sender
    \/ join
    \/ drop_again

\* An application that records one kind of metric on these keys, and one
\* that records all three kinds.
SpecKeys == Init /\ [][NextKeys]_vars

SpecKeysMixed == InitMixed /\ [][NextKeys]_vars

\* Number of recording calls in one behaviour of the application below.
MaxFoundCalls == 3

\* count_add, gauge or histogram on one of the keys, its first statements, in
\* an application that makes one call more.
found_record(t) ==
    /\ rec[t].pc = "idle"
    /\ \A u \in Threads : u < t => rec[u].pc # "idle"
    /\ sender
    /\ calls < MaxFoundCalls
    /\ calls' = calls + 1
    /\ \E op \in ops, metric \in KeyMetrics, value \in KeyValues, tags \in KeyTagSlices :
         rec' = [rec EXCEPT ![t] =
                   [pc |-> "loaded", op |-> op, metric |-> metric, value |-> value,
                    raw |-> tags, tags |-> sort_unstable(tags),
                    agg |-> current_aggregator, id |-> 0]]
    /\ UNCHANGED <<aggs, current_aggregator, pending_to_process_aggregator,
                   available_aggregator, NEXT_ID, wpc, finish, sender,
                   job_handle, written, ops, ticks, win, drained, flushed,
                   stats_writer, socket, wcall, applied>>

NextFound ==
    \/ \E t \in Threads : found_record(t)
    \/ \E t \in Threads : read_probe(t)
    \/ \E t \in Threads : write_probe(t)
    \/ \E t \in Threads : gauge_sum(t)
    \/ \E t \in Threads : histogram_write(t)
    \/ bind
    \/ key_tick
    \/ recv_shutdown
    \/ swap
    \/ would_block
    \/ drain
    \/ drop_sender
    \/ join
    \/ drop_again

SpecFound == Init /\ [][NextFound]_vars

(***************************************************************************)
(* Functions applied on their own.                                         *)
(***************************************************************************)
\* The tags a caller may pass: the empty string and two non-empty ones, in
\* sequences of up to MaxTags.
TagValues == {<<>>, tag_ab, tag_b}
TagLists == UNION {[1..n -> TagValues] : n \in 0..MaxTags}

\* materialize_tags applied to a tag sequence, and the bytes
\* StatsWriterSimple::write pushes for a counter line with the joined tags.
apply_materialize_tags ==
    /\ \E tags \in TagLists :
         applied' = [fn |-> "materialize_tags",
                     arg |-> tags,
                     ret |-> materialize_tags(tags),
                     line |-> push_metric(<<>>, <<>>, <<metric_m>>,
                                          materialize_tags(tags), format(1), str_c)]
    /\ UNCHANGED CollectorVarsOnly
    /\ UNCHANGED WriterVars

\* A constructor that accepts every value.
SigFig_new_unchecked(v) == [ok |-> TRUE, value |-> v]

\* SigFig::new: Err when the value exceeds SIG_FIG_MAX, else Ok(SigFig).
SigFig_new(v) ==
    IF v > SIG_FIG_MAX THEN [ok |-> FALSE] ELSE [ok |-> TRUE, value |-> v]

\* SigFig::default
SigFig_default == [ok |-> TRUE, value |-> SIG_FIG_DEF]

\* SigFig::value
SigFig_value(sig_fig) == sig_fig.value

\* SigFig::new applied to a u8.
apply_SigFig_new ==
    /\ \E v \in 0..U8_MAX :
         applied' = [fn |-> "SigFig::new", arg |-> v, ret |-> SigFig_new(v)]
    /\ UNCHANGED CollectorVarsOnly
    /\ UNCHANGED WriterVars

\* SigFig::default()
apply_SigFig_default ==
    /\ applied' = [fn |-> "SigFig::default", arg |-> <<>>, ret |-> SigFig_default]
    /\ UNCHANGED CollectorVarsOnly
    /\ UNCHANGED WriterVars

\* The cells HistogramWrapper::record is applied to: a new cell and a cell
\* with one recorded value, each either with the bounds get_histogram gives
\* its histograms or with a highest trackable value of 1.
RecordCells ==
    {[c EXCEPT !.high = h] :
        c \in {new_with_bounds(SIG_FIG_DEF), record(new_with_bounds(SIG_FIG_DEF), 1)},
        h \in {1, U64_MAX}}

\* HistogramWrapper::record applied to a cell and a value.
apply_record ==
    /\ \E cell \in RecordCells, value \in 0..U64_MAX :
         applied' = [fn |-> "HistogramWrapper::record",
                     arg |-> [cell |-> cell, value |-> value],
                     ret |-> [cell |-> record(cell, value),
                              result |-> record_result(cell, value)]]
    /\ UNCHANGED CollectorVarsOnly
    /\ UNCHANGED WriterVars

\* add_or_insert_entry_write applied to an aggregator without entries whose
\* pool holds one of these cells, for a histogram of metric m without tags.
apply_add_or_insert_entry_write ==
    /\ \E cell \in {c \in RecordCells : c.histogram = <<>>}, value \in 0..U64_MAX :
         LET agg == [with_hasher_builder EXCEPT
                        !.pool_histograms[SIG_FIG_DEF] = <<cell>>]
             lk == build_lookup_key(metric_m, <<>>)
         IN  applied' = [fn |-> "add_or_insert_entry_write",
                         arg |-> [agg |-> agg, value |-> value],
                         ret |-> [agg |-> write_insert(agg, lk, value, SIG_FIG_DEF, 0),
                                  result |-> record_result(cell, value)]]
    /\ UNCHANGED CollectorVarsOnly
    /\ UNCHANGED WriterVars

\* RylvStr: the variant and the bytes of the string it holds.
RylvStrVariants == {"Static", "Borrowed", "Owned"}
RylvStrs(S) == [variant : RylvStrVariants, s : S]

\* A view that tells the variants apart: a byte of the variant, then the bytes.
as_ref_by_variant(r) ==
    <<CHOOSE i \in 1..3 : <<"Static", "Borrowed", "Owned">>[i] = r.variant>> \o r.s

\* AsRef<str> for RylvStr: the bytes, whatever the variant.
as_ref(r) == r.s

\* PartialEq for RylvStr: self.as_ref() == other.as_ref().
RylvStr_eq(a, b) == as_ref(a) = as_ref(b)

\* Ord for RylvStr: self.as_ref().cmp(other.as_ref()).
RylvStr_cmp(a, b) ==
    IF as_ref(a) = as_ref(b) THEN "Equal"
    ELSE IF StrLess(as_ref(a), as_ref(b)) THEN "Less" ELSE "Greater"

\* RylvStr::to_cow: a Static string is borrowed, the others are copied.
to_cow(r) ==
    [cow |-> IF r.variant = "Static" THEN "Borrowed" ELSE "Owned", s |-> r.s]

\* The tag slices of one variant.
VariantSlices ==
    {[i \in DOMAIN tags |-> [variant |-> v, s |-> tags[i]]] :
        tags \in TagSlices, v \in RylvStrVariants}

\* The LookupKey of a recording: the slice sorted, then build_lookup_key,
\* which hashes metric.as_ref() and every tag.as_ref().
lookup_of(metric, tags) ==
    build_lookup_key(as_ref(metric), sort_unstable([i \in DOMAIN tags |-> as_ref(tags[i])]))

\* count(a, ta) and then count(b, tb) on an empty counter map: the first call
\* inserts its key (into_key stores to_cow of the metric), the second finds
\* it or inserts its own.  With them the results of a == b and a.cmp(b).
\* (Applied to a collector as constructed.)
apply_RylvStr ==
    /\ applied = NotApplied
    /\ \E a \in RylvStrs(KeyMetrics), b \in RylvStrs(KeyMetrics),
          ta \in VariantSlices, tb \in VariantSlices :
         LET lka == lookup_of(a, ta)
             lkb == lookup_of(b, tb)
             first == {[key |-> into_key([lka EXCEPT !.metric = to_cow(a).s], 0),
                        val |-> 1]}
             found == find(first, lkb)
             second == IF found # {}
                       THEN {[e EXCEPT !.val = fetch_add(@, 1)] : e \in first}
                       ELSE first \cup
                            {[key |-> into_key([lkb EXCEPT !.metric = to_cow(b).s], 1),
                              val |-> 1]}
         IN  applied' = [fn |-> "RylvStr",
                         arg |-> [a |-> a, ta |-> ta, b |-> b, tb |-> tb],
                         ret |-> [eq |-> RylvStr_eq(a, b), cmp |-> RylvStr_cmp(a, b),
                                  hash_a |-> lka.hash, hash_b |-> lkb.hash,
                                  map |-> second]]
    /\ UNCHANGED CollectorVarsOnly
    /\ UNCHANGED WriterVars

InitFunctions ==
    /\ InitCollector
    /\ InitStatsWriter
    /\ ops = {}

NextFunctions ==
    \/ apply_materialize_tags
    \/ apply_SigFig_new
    \/ apply_SigFig_default
    \/ apply_record
    \/ apply_add_or_insert_entry_write
    \/ apply_RylvStr

SpecFunctions == InitFunctions /\ [][NextFunctions]_vars

(***************************************************************************)
(* Vocabulary of the properties.                                           *)
(***************************************************************************)
\* Two calls are on the same identity: same operation, metric and tag multiset.
SameIdentity(c, d) ==
    /\ c.op = d.op
    /\ c.metric = d.metric
    /\ c.tags = d.tags

\* The calls of bag b on the identity of call c, as a set of (call, copies).
CallsOn(b, c) == {d \in DOMAIN b : SameIdentity(c, d)}

RECURSIVE SumOver(_, _)
SumOver(b, S) ==
    IF S = {} THEN 0
    ELSE LET d == CHOOSE x \in S : TRUE
         IN  b[d] * d.value + SumOver(b, S \ {d})

RECURSIVE CountOver(_, _)
CountOver(b, S) ==
    IF S = {} THEN 0
    ELSE LET d == CHOOSE x \in S : TRUE
         IN  b[d] + CountOver(b, S \ {d})

\* The sum and the number of the values recorded on the identity of c.
ValueSum(b, c) == SumOver(b, CallsOn(b, c))
ValueCount(b, c) == CountOver(b, CallsOn(b, c))

\* A sequence is in ascending byte order.
IsAscending(s) ==
    \A i, j \in DOMAIN s : i < j => ~StrLess(s[j], s[i])

\* The tags of a multiset in ascending byte order.
Ascending(bag) ==
    CHOOSE s \in [1..BagCardinality(bag) -> DOMAIN bag] :
        TagBag(s) = bag /\ IsAscending(s)

\* The tags separated by single commas.
RECURSIVE CommaSeparated(_)
CommaSeparated(s) ==
    IF Len(s) = 0 THEN <<>>
    ELSE IF Len(s) = 1 THEN s[1]
    ELSE CommaSeparated(SubSeq(s, 1, Len(s) - 1)) \o <<ch_comma>> \o s[Len(s)]

\* The tag section the line of an identity carries.
TagSection(c) == CommaSeparated(Ascending(c.tags))

\* The positions in the last drain's write calls of the lines with that metric
\* (as segments), type and the identity's tag section.
LinesOf(c, segments, metric_type) ==
    {i \in DOMAIN written :
        /\ written[i].metric = segments
        /\ written[i].metric_type = metric_type
        /\ written[i].tags = TagSection(c)}

CountCalls == {c \in DOMAIN drained : c.op = "count"}
GaugeCalls == {c \in DOMAIN drained : c.op = "gauge"}
HistogramCalls == {c \in DOMAIN drained : c.op = "histogram"}

NoContribution(agg) ==
    /\ \A e \in agg.count : e.val = 0
    /\ \A e \in agg.gauge : e.val.count = 0
    /\ \A e \in agg.histograms : Len(e.val.histogram) = 0

\* C2: once drop has returned (the worker is joined), the worker has
\* terminated, every recording that returned has been taken by some drain and
\* no aggregator generation holds a non-zero counter, gauge or histogram
\* contribution.
C2_ShutdownFlushed ==
    ~job_handle =>
        /\ wpc = "done"
        /\ \A g \in DOMAIN win : win[g] = EmptyBag
        /\ \A g \in DOMAIN aggs : NoContribution(aggs[g])

\* The same statement for the collectors whose worker reached its loop and
\* saw the closed channel (finish is set only there).
C2_ShutdownFlushed_WhenBound ==
    (~job_handle /\ finish) =>
        /\ wpc = "done"
        /\ \A g \in DOMAIN win : win[g] = EmptyBag
        /\ \A g \in DOMAIN aggs : NoContribution(aggs[g])

\* Drop returned after a worker that was bound drained a recorded call.
C2_Witness ==
    /\ ~job_handle
    /\ finish
    /\ drained # EmptyBag

(***************************************************************************)
(* C3.  A swap's snapshot holds every recording that returned before it.   *)
(***************************************************************************)
\* The maps of generation g hold exactly the calls of its window: for every
\* identity, the counter is the sum of the values, the gauge has their number
\* and sum, the histogram has their number.
Contained(g) ==
    \A c \in DOMAIN win[g] :
        \E e \in aggs[g][IF c.op = "histogram" THEN "histograms" ELSE c.op] :
            /\ e.key.metric = c.metric
            /\ e.key.joined_tags = TagSection(c)
            /\ c.op = "count" =>
                  e.val = ValueSum(win[g], c) % (U64_MAX + 1)
            /\ c.op = "gauge" =>
                  /\ e.val.count = ValueCount(win[g], c) % (U64_MAX + 1)
                  /\ e.val.sum = ValueSum(win[g], c) % (U64_MAX + 1)
            /\ c.op = "histogram" =>
                  Len(e.val.histogram) = ValueCount(win[g], c)

ValuesOn(b, c) == {d.value : d \in CallsOn(b, c)}

Smallest(S) == CHOOSE x \in S : \A y \in S : x <= y
Largest(S) == CHOOSE x \in S : \A y \in S : x >= y

\* Exactly one line with these segments and type was written for the identity
\* of c, and it carries that value.
OneLine(c, segments, metric_type, value) ==
    /\ Cardinality(LinesOf(c, segments, metric_type)) = 1
    /\ \A i \in LinesOf(c, segments, metric_type) :
          written[i].value = format(value)

\* C5: for every identity with histogram calls in the drained window, the
\* drain wrote .count with the number of recorded values, .min with the
\* smallest and .max with the largest of them.
C5_HistogramExtrema ==
    \A c \in HistogramCalls :
        /\ OneLine(c, <<c.metric, sfx_count>>, str_c, ValueCount(drained, c))
        /\ OneLine(c, <<c.metric, sfx_min>>, str_g, Smallest(ValuesOn(drained, c)))
        /\ OneLine(c, <<c.metric, sfx_max>>, str_g, Largest(ValuesOn(drained, c)))

\* Two different values on one identity were drained: .min and .max differ.
C5_Witness ==
    \E c \in HistogramCalls :
        /\ ValueCount(drained, c) = 2
        /\ ValuesOn(drained, c) = {0, U64_MAX}
        /\ \E i \in LinesOf(c, <<c.metric, sfx_min>>, str_g) :
              written[i].value = format(0)
        /\ \E i \in LinesOf(c, <<c.metric, sfx_max>>, str_g) :
              written[i].value = format(U64_MAX)

(***************************************************************************)
(* C6.  Two-generation bound.                                              *)
(***************************************************************************)
\* C6: at most two Aggregator generations exist: the published one and at
\* most one more, which the worker holds as pending or as available.
C6_TwoGenerations ==
    /\ Cardinality(DOMAIN aggs) <= 2
    /\ current_aggregator \in DOMAIN aggs
    /\ DOMAIN aggs \subseteq {current_aggregator, pending_to_process_aggregator,
                              available_aggregator}
    /\ pending_to_process_aggregator = None \/ available_aggregator = None

\* After the last long tick two generations exist, one of them available for
\* the third time round.
C6_Witness ==
    /\ ticks = MaxTicks
    /\ Cardinality(DOMAIN aggs) = 2
    /\ available_aggregator # None
    /\ wpc = "idle"

(***************************************************************************)
(* C7.  Tag order irrelevance.                                             *)
(***************************************************************************)
\* The maps of an aggregator, by name.
MapNames == {"count", "gauge", "histograms"}

\* C7: no map holds two entries for one metric and tag multiset, every
\* entry's joined tags are its tags in ascending byte order, and every line
\* written carries the tags of a drained call in ascending byte order.
C7_TagOrderIrrelevant ==
    /\ \A g \in DOMAIN aggs : \A n \in MapNames :
          /\ \A e1, e2 \in aggs[g][n] :
                (e1.key.metric = e2.key.metric
                 /\ TagBag(e1.key.tags) = TagBag(e2.key.tags)) => e1 = e2
          /\ \A e \in aggs[g][n] :
                e.key.joined_tags = CommaSeparated(Ascending(TagBag(e.key.tags)))
    /\ \A i \in DOMAIN written :
          \E c \in DOMAIN drained : written[i].tags = TagSection(c)

\* A gauge call that passed the tags as "b", "ab" has incremented the count of
\* the entry another call had inserted: its key has the tags "ab", "b".
C7_Witness ==
    \E t \in Threads : \E e \in aggs[current_aggregator].gauge :
        /\ rec[t].pc = "gsum"
        /\ rec[t].raw = <<tag_b, tag_ab>>
        /\ rec[t].id = e.key.id
        /\ e.key.tags = <<tag_ab, tag_b>>
        /\ e.val.count = 2
        /\ win[current_aggregator] # EmptyBag

(***************************************************************************)
(* C8.  Zero suppression.                                                  *)
(***************************************************************************)
\* The positions in the write calls w of the lines of a key: its metric
\* followed by the suffix, the type and its joined tags.
KeyLines(w, key, suffix, metric_type) ==
    {i \in DOMAIN w :
        /\ w[i].metric = <<key.metric>> \o suffix
        /\ w[i].metric_type = metric_type
        /\ w[i].tags = key.joined_tags}

\* The drain removed the entry of that key from the map, if the aggregator
\* outlives the drain.
Removed(g, n, key) ==
    g \in DOMAIN aggs' => \A f \in aggs'[g][n] : f.key # key

\* The drain kept the entry of that key in the map with the value zero, if
\* the aggregator outlives the drain.
KeptAs(g, n, key, zero) ==
    g \in DOMAIN aggs' => [key |-> key, val |-> zero] \in aggs'[g][n]

\* C8: in a drain, an entry with counter value 0, gauge count 0 or histogram
\* length 0 causes no write call and is removed from the drained map; an
\* entry with a non-zero contribution causes a write call, is reset to zero
\* and stays in the map.
C8_ZeroSuppression ==
    [][ (pending_to_process_aggregator # None
         /\ pending_to_process_aggregator' = None) =>
        LET g == pending_to_process_aggregator IN
        /\ \A e \in aggs[g].count :
              IF e.val = 0
              THEN /\ KeyLines(written', e.key, <<>>, str_c) = {}
                   /\ Removed(g, "count", e.key)
              ELSE /\ \E i \in KeyLines(written', e.key, <<>>, str_c) :
                         written'[i].value = format(e.val)
                   /\ KeptAs(g, "count", e.key, 0)
        /\ \A e \in aggs[g].gauge :
              IF e.val.count = 0
              THEN /\ KeyLines(written', e.key, <<>>, str_g) = {}
                   /\ Removed(g, "gauge", e.key)
              ELSE /\ KeyLines(written', e.key, <<>>, str_g) # {}
                   /\ KeptAs(g, "gauge", e.key, [count |-> 0, sum |-> 0])
        /\ \A e \in aggs[g].histograms :
              IF Len(e.val.histogram) = 0
              THEN /\ KeyLines(written', e.key, <<sfx_count>>, str_c) = {}
                   /\ Removed(g, "histograms", e.key)
              ELSE /\ KeyLines(written', e.key, <<sfx_count>>, str_c) # {}
                   /\ KeptAs(g, "histograms", e.key, reset(e.val))
      ]_vars

\* One drain wrote the line of a non-zero counter and kept its entry at 0,
\* and removed the entry of a counter that only had 0 added.
C8_Witness ==
    /\ available_aggregator # None
    /\ \E c, d \in CountCalls :
          /\ c.value = 1 /\ c.tags = EmptyBag
          /\ d.value = 0 /\ d.tags # EmptyBag
    /\ Len(written) = 1
    /\ written[1].tags = <<>>
    /\ Cardinality(aggs[available_aggregator].count) = 1
    /\ \A e \in aggs[available_aggregator].count : e.val = 0 /\ e.key.tags = <<>>

(***************************************************************************)
(* C9.  Eviction after two quiet drains.                                   *)
(***************************************************************************)
\* No call on the identity of c is in the window of drain j.
Quiet(j, c) == CallsOn(flushed[j].drained, c) = {}

\* The write calls of drain j for the counter identity of c.
CounterLines(j, c) ==
    {i \in DOMAIN flushed[j].written :
        /\ flushed[j].written[i].metric = <<c.metric>>
        /\ flushed[j].written[i].metric_type = str_c
        /\ flushed[j].written[i].tags = TagSection(c)}

\* The counter identity of c has an entry in a map of some generation.
Present(c) ==
    \E g \in DOMAIN aggs : \E e \in aggs[g].count :
        e.key.metric = c.metric /\ e.key.joined_tags = TagSection(c)

\* No call on the identity of c has been applied since the last drain.
NotRecordedSince(c) == \A g \in DOMAIN win : CallsOn(win[g], c) = {}

\* The drains k, k + 1, k + 2 with a counter identity recorded in the window
\* of drain k and in neither of the next two windows.
QuietRuns ==
    {<<k, c>> \in (1..Len(flushed)) \X UNION {DOMAIN f.drained : f \in {flushed[j] : j \in DOMAIN flushed}} :
        /\ k + 2 <= Len(flushed)
        /\ c \in DOMAIN flushed[k].drained
        /\ c.op = "count"
        /\ Quiet(k + 1, c)
        /\ Quiet(k + 2, c)}

\* The rest of the statement: the next two drains write no line for the
\* identity, and after the third drain no map of any generation has its key.
C9_QuietAfter(k, c) ==
    /\ CounterLines(k + 1, c) = {}
    /\ CounterLines(k + 2, c) = {}
    /\ (k + 2 = Len(flushed) /\ NotRecordedSince(c)) => ~Present(c)

Datagram(w) ==
    IF w.writer_type = "Simple" THEN w.current_transmit
    ELSE Flatten(w.current_transmit.parts)

\* The line of the protocol: prefix, segments, ':', value, '|', type, the tag
\* section when there are tags, newline.
LineOf(prefix, segments, tags, value, metric_type) ==
    prefix \o Flatten(segments) \o <<ch_colon>> \o value \o <<ch_pipe>>
        \o metric_type
        \o (IF tags = <<>> THEN <<>> ELSE <<ch_pipe, ch_hash>> \o tags)
        \o <<ch_nl>>

\* "|#" occurs in the bytes.
HasTagMark(bytes) ==
    \E i \in 1..(Len(bytes) - 1) : bytes[i] = ch_pipe /\ bytes[i + 1] = ch_hash

\* C10: a write call that returns Ok leaves the datagram under construction
\* as it was, or empty after a hand-over, followed by exactly the line's
\* bytes; with no tags the bytes added have no "|#".
C10_LineBytes ==
    [][ (wcall'.n = wcall.n + 1 /\ wcall'.result = "Ok") =>
        LET line == LineOf(stats_writer.stats_prefix, wcall'.metrics,
                           wcall'.tags, wcall'.value, wcall'.metric_type)
        IN  /\ \E base \in {<<>>, Datagram(stats_writer)} :
                  Datagram(stats_writer') = base \o line
            /\ wcall'.tags = <<>> => ~HasTagMark(line)
      ]_vars

\* The batching writer with a prefix accepted a line without tags after a
\* line with tags: the datagram holds both.
C10_Witness ==
    /\ stats_writer.writer_type = "LinuxBatch"
    /\ stats_writer.stats_prefix # <<>>
    /\ wcall.n = 2
    /\ wcall.result = "Ok"
    /\ wcall.tags = <<>>
    /\ HasTagMark(Datagram(stats_writer))
    /\ Len(stats_writer.current_transmit.parts) > 9

(***************************************************************************)
(* C11.  The five lines of a histogram.                                    *)
(***************************************************************************)
\* The suffix and the type of the five lines, in the order of the protocol.
FiveLines ==
    << <<sfx_count, str_c>>, <<sfx_min, str_g>>, <<sfx_avg, str_g>>,
       <<sfx_p99, str_g>>, <<sfx_max, str_g>> >>

\* The write calls w hold, from position i on, the five lines of that key.
FiveLinesAt(w, i, key) ==
    \A j \in 1..5 :
        /\ i + j - 1 \in DOMAIN w
        /\ w[i + j - 1].metric = <<key.metric, FiveLines[j][1]>>
        /\ w[i + j - 1].metric_type = FiveLines[j][2]
        /\ w[i + j - 1].tags = key.joined_tags

\* The positions in the write calls w of the lines with a suffix that carry
\* the metric and the joined tags of that key.
SuffixedLines(w, key) ==
    {i \in DOMAIN w :
        /\ Len(w[i].metric) = 2
        /\ w[i].metric[1] = key.metric
        /\ w[i].tags = key.joined_tags}

\* C11: in a drain, every histogram entry with at least one recorded value
\* causes exactly five write calls, consecutive and in the order .count (type
\* c), .min, .avg, .99percentile, .max (type g), each with the entry's joined
\* tags, and the cell is reset.
C11_HistogramFiveLines ==
    [][ (pending_to_process_aggregator # None
         /\ pending_to_process_aggregator' = None) =>
        LET g == pending_to_process_aggregator IN
        \A e \in aggs[g].histograms :
            Len(e.val.histogram) > 0 =>
                /\ \E i \in DOMAIN written' : FiveLinesAt(written', i, e.key)
                /\ Cardinality(SuffixedLines(written', e.key)) = 5
                /\ KeptAs(g, "histograms", e.key, reset(e.val))
      ]_vars

\* A drain wrote the five lines of a histogram with tags, and the drained
\* generation keeps the cell, reset.
C11_Witness ==
    /\ available_aggregator # None
    /\ Len(written) = 5
    /\ written[1].tags # <<>>
    /\ \E e \in aggs[available_aggregator].histograms :
          /\ FiveLinesAt(written, 1, e.key)
          /\ e.val = reset(e.val)
    /\ \E c \in HistogramCalls : c.value = U64_MAX

(***************************************************************************)
(* C12.  The joined tags.                                                  *)
(***************************************************************************)
\* The sum of the lengths of the tags.
RECURSIVE TagsLen(_)
TagsLen(tags) ==
    IF tags = <<>> THEN 0 ELSE Len(Head(tags)) + TagsLen(Tail(tags))

\* The joined string is the tags in order separated by single commas, its
\* length is the sum of the tag lengths plus n - 1, and for n = 0 it is empty
\* and the line has no "|#".
JoinedLaw(tags, joined, line) ==
    /\ joined = CommaSeparated(tags)
    /\ Len(tags) > 0 => Len(joined) = TagsLen(tags) + Len(tags) - 1
    /\ Len(tags) = 0 => (joined = <<>> /\ ~HasTagMark(line))

\* C12, as claimed: for every tag sequence the joined string obeys the law
\* and has no leading and no trailing comma.
C12_JoinedTags_Claimed ==
    applied.fn = "materialize_tags" =>
        /\ JoinedLaw(applied.arg, applied.ret, applied.line)
        /\ applied.ret # <<>> =>
              /\ applied.ret[1] # ch_comma
              /\ applied.ret[Len(applied.ret)] # ch_comma

\* C12, amended: the joined string obeys the law; it starts with a comma only
\* when the first tag is empty or starts with one, and ends with a comma only
\* when the last tag is empty or ends with one.
C12_JoinedTags ==
    applied.fn = "materialize_tags" =>
        LET tags == applied.arg
            joined == applied.ret
            first == tags[1]
            last == tags[Len(tags)]
        IN  /\ JoinedLaw(tags, joined, applied.line)
            /\ joined # <<>> =>
                  /\ joined[1] = ch_comma =>
                        (first = <<>> \/ first[1] = ch_comma)
                  /\ joined[Len(joined)] = ch_comma =>
                        (last = <<>> \/ last[Len(last)] = ch_comma)

\* Three non-empty tags were joined with two commas, and the line carries
\* them after "|#".
C12_Witness ==
    /\ applied.fn = "materialize_tags"
    /\ applied.arg = <<tag_ab, tag_b, tag_b>>
    /\ applied.ret = tag_ab \o <<ch_comma>> \o tag_b \o <<ch_comma>> \o tag_b
    /\ HasTagMark(applied.line)

(***************************************************************************)
(* C13.  The simple writer's buffer and datagrams stay within the MTU.     *)
(***************************************************************************)
\* C13: for the simple writer, whatever write, flush and reset calls were
\* made, the pending buffer is at most max_udp_packet_size bytes long, and so
\* is every datagram the socket was given.
C13_SimpleMtuBound ==
    stats_writer.writer_type = "Simple" =>
        /\ Len(stats_writer.current_transmit) <= stats_writer.max_udp_packet_size
        /\ \A i \in DOMAIN socket :
              Len(socket[i]) <= stats_writer.max_udp_packet_size

\* A line that fills the packet was handed to the socket to make room for a
\* second one, which fills the buffer again.
C13_Witness ==
    /\ stats_writer.writer_type = "Simple"
    /\ stats_writer.max_udp_packet_size < U16_MAX
    /\ Len(socket) = 1
    /\ Len(socket[1]) = stats_writer.max_udp_packet_size
    /\ Len(stats_writer.current_transmit) = stats_writer.max_udp_packet_size
    /\ wcall.result = "Ok"

(***************************************************************************)
(* C14.  The batched writer's transmits and the 16-bit length.             *)
(***************************************************************************)
\* The transmits of the batched writer: the queued ones and the current one.
Transmits(w) ==
    {w.queued_transmits[i] : i \in DOMAIN w.queued_transmits}
        \cup {w.current_transmit}

\* A transmit holds at most max bytes and its len word is their number.
WithinPacket(t, max_udp_packet_size) ==
    /\ Len(Flatten(t.parts)) <= max_udp_packet_size
    /\ t.len = Len(Flatten(t.parts))

\* C14: for the batched writer, with any max_udp_packet_size of the word,
\* no write call ends in an arithmetic overflow, every transmit holds at most
\* max_udp_packet_size bytes, counted exactly by its len, and so does every
\* datagram the socket was given.
C14_TransmitMtuBound ==
    stats_writer.writer_type = "LinuxBatch" =>
        /\ wcall.result # "Panic"
        /\ \A t \in Transmits(stats_writer) :
              WithinPacket(t, stats_writer.max_udp_packet_size)
        /\ \A i \in DOMAIN socket :
              Len(socket[i]) <= stats_writer.max_udp_packet_size

\* The same statement for the packet sizes of at most half the word, where
\* len + space stays within the word.
C14_TransmitMtuBound_HalfWord ==
    (stats_writer.writer_type = "LinuxBatch"
     /\ 2 * stats_writer.max_udp_packet_size <= U16_MAX) =>
        /\ wcall.result # "Panic"
        /\ \A t \in Transmits(stats_writer) :
              WithinPacket(t, stats_writer.max_udp_packet_size)
        /\ \A i \in DOMAIN socket :
              Len(socket[i]) <= stats_writer.max_udp_packet_size

\* With the largest packet size the batched writer accepted a line into a
\* transmit that then holds more bytes than a packet, its len wrapped.
C14_Witness ==
    /\ stats_writer.writer_type = "LinuxBatch"
    /\ stats_writer.max_udp_packet_size = U16_MAX
    /\ wcall.result = "Ok"
    /\ Len(Flatten(stats_writer.current_transmit.parts)) > U16_MAX
    /\ stats_writer.current_transmit.len < Len(Flatten(stats_writer.current_transmit.parts))

(***************************************************************************)
(* C15.  A line longer than a packet.                                      *)
(***************************************************************************)
\* The line of the caller's last write call is longer than a packet.
Oversized(w, c) ==
    Len(LineOf(w.stats_prefix, c.metrics, c.tags, c.value, c.metric_type))
        > w.max_udp_packet_size

\* C15: a write call whose line is longer than max_udp_packet_size returns
\* an error and leaves the writer (the pending datagram and the queue) and
\* the socket exactly as they were, and the caller goes on with its next
\* write or flush; the lines accepted before stay pending and the lines
\* written after meet the writer they would have met without the call.
C15_OversizedLine ==
    [][ (wcall'.n = wcall.n + 1 /\ Oversized(stats_writer, wcall')) =>
        /\ wcall'.result = "Err"
        /\ stats_writer' = stats_writer
        /\ socket' = socket
        /\ wcall'.phase = "open"
      ]_vars

\* A line was accepted, a second one longer than the packet was refused, and
\* the flush that followed gave the socket the datagram with the first line.
C15_Witness ==
    /\ wcall.n = 2
    /\ wcall.phase = "flushed"
    /\ wcall.result = "Ok"
    /\ Oversized(stats_writer, wcall)
    /\ Len(socket) = 1
    /\ socket[1] # <<>>
    /\ Len(socket[1]) <= stats_writer.max_udp_packet_size

(***************************************************************************)
(* C18.  The size of a batched send.                                       *)
(***************************************************************************)
\* C18: for the batched writer, no write or flush call submits more than
\* max_udp_batch_size datagrams in one batched send, whatever calls were made
\* before and however they ended.
C18_BatchBound ==
    stats_writer.writer_type = "LinuxBatch" =>
        wcall.batch <= stats_writer.max_udp_batch_size

\* The same statement for the calls made while the queue has not grown
\* beyond the capacity it was created with.
C18_BatchBound_WithinCapacity ==
    (stats_writer.writer_type = "LinuxBatch"
     /\ stats_writer.capacity = stats_writer.max_udp_batch_size) =>
        wcall.batch <= stats_writer.max_udp_batch_size

\* After a batched send failed inside a write call, the queue kept its
\* transmits and grew, and the flush submitted more datagrams than
\* max_udp_batch_size.
C18_Witness ==
    /\ stats_writer.writer_type = "LinuxBatch"
    /\ wcall.phase = "flushed"
    /\ wcall.batch > stats_writer.max_udp_batch_size
    /\ stats_writer.capacity > stats_writer.max_udp_batch_size

(***************************************************************************)
(* C16.  Write and flush errors stay inside the worker.                    *)
(***************************************************************************)
\* Some write call or the flush of a cycle returned an error.
Failed(results) == \E i \in DOMAIN results : results[i] = "Err"

\* C16: a drain in which a write or the flush returned an error leaves every
\* recorder's call as it is, leaves the writer as it was before the cycle,
\* keeps the drained aggregator as the available one and puts the worker
\* back to idle (or, after the shutdown signal, ends it as a drain without
\* errors would): the next tick swaps and drains as ever.
C16_ErrorsContained ==
    [][ (pending_to_process_aggregator # None
         /\ pending_to_process_aggregator' = None
         /\ Failed(flushed'[Len(flushed')].results)) =>
        /\ rec' = rec
        /\ calls' = calls
        /\ stats_writer' = stats_writer
        /\ wpc' = IF finish THEN "done" ELSE "idle"
        /\ available_aggregator' =
              IF finish THEN None ELSE pending_to_process_aggregator
        /\ job_handle' = job_handle
      ]_vars

\* A cycle whose sends failed was followed by the swap and the drain of a
\* later tick, which wrote the lines of a later recording and sent them.
C16_Witness ==
    /\ Len(flushed) >= 2
    /\ Failed(flushed[1].results)
    /\ ~Failed(flushed[2].results)
    /\ flushed[2].written # <<>>
    /\ socket # <<>>
    /\ wpc = "idle"

(***************************************************************************)
(* C17.  Shutdown terminates after a final flush.                          *)
(***************************************************************************)
\* C17: once the collector is dropped (no recording call is in flight then),
\* the worker eventually observes the closed channel, makes its final swap
\* and drain and ends, and the join of drop returns.
C17_ShutdownTerminates ==
    (~sender) ~> (finish /\ wpc = "done" /\ ~job_handle)

\* The same statement for a worker that is in its loop.
C17_ShutdownTerminates_WhenBound ==
    (~sender /\ wpc \in {"idle", "run"}) ~> (finish /\ wpc = "done" /\ ~job_handle)

\* Drop returns in every case.
C17_DropReturns ==
    (~sender) ~> ~job_handle

\* Drop returned after the worker saw the closed channel and drained a
\* recording in its final flush.
C17_Witness ==
    /\ ~sender
    /\ ~job_handle
    /\ finish
    /\ wpc = "done"
    /\ Len(flushed) = 1
    /\ flushed[1].written # <<>>

(***************************************************************************)
(* C19.  A socket that cannot be bound.                                    *)
(***************************************************************************)
\* The worker thread ended on the bind error: it is done without ever having
\* seen the shutdown signal.
BindFailed == wpc = "done" /\ ~finish

\* C19: the caller never holds a collector whose worker could not bind its
\* socket, and no recording is ever taken by such a collector.
C19_BindFailureReported ==
    BindFailed =>
        /\ ~sender
        /\ \A g \in DOMAIN win : win[g] = EmptyBag

\* The caller holds a collector whose worker ended on the bind error, and a
\* recording on it has returned.
C19_Witness ==
    /\ BindFailed
    /\ sender
    /\ win[current_aggregator] # EmptyBag
    /\ \A t \in Threads : rec[t].pc = "idle"

(***************************************************************************)
(* C20.  SigFig values.                                                    *)
(***************************************************************************)
\* C20: SigFig::new(v) succeeds exactly when v <= 5, and the SigFig it
\* returns has the value v; every SigFig made by new or default has a value
\* in 0..5, which indexes one of the six pool buckets of an Aggregator.
C20_SigFigRange ==
    /\ applied.fn = "SigFig::new" =>
          /\ applied.ret.ok <=> applied.arg <= 5
          /\ applied.ret.ok => SigFig_value(applied.ret) = applied.arg
    /\ applied.fn \in {"SigFig::new", "SigFig::default"} =>
          (applied.ret.ok =>
              /\ SigFig_value(applied.ret) \in 0..5
              /\ SigFig_value(applied.ret) \in DOMAIN with_hasher_builder.pool_histograms)
    /\ Cardinality(DOMAIN with_hasher_builder.pool_histograms) = 6
    /\ POOL_COUNT = 6

\* SigFig::new accepted the largest value, 5.
C20_Witness ==
    /\ applied.fn = "SigFig::new"
    /\ applied.arg = 5
    /\ applied.ret.ok
    /\ SigFig_value(applied.ret) = 5

(***************************************************************************)
(* C21.  A second run of the drop logic.                                   *)
(***************************************************************************)
\* The first drop has run to its end: the sender and the join handle are
\* taken.
Dropped == ~sender /\ ~job_handle

\* C21: once the drop logic has run, running it again is a no-op: the sender
\* and the join handle are already taken, so the second run closes no
\* channel and joins no thread, no flush follows it and no state of the
\* collector, of the worker or of the writer changes.
C21_SecondDropNoop ==
    [][Dropped =>
          /\ UNCHANGED CollectorVarsOnly
          /\ UNCHANGED WriterVars
          /\ applied' # applied =>
                /\ applied'.fn = "Drop::drop"
                /\ ~applied'.ret.closes
                /\ ~applied'.ret.joins]_vars

\* The drop logic has run a second time, on a collector whose first drop made
\* the worker flush a recording.
C21_Witness ==
    /\ applied.fn = "Drop::drop"
    /\ Dropped
    /\ wpc = "done"
    /\ finish
    /\ Len(flushed) = 1
    /\ flushed[1].written # <<>>

(***************************************************************************)
(* C22.  The fast path's update and the shard's shared lock.               *)
(***************************************************************************)
\* Thread t is between the probe that found its entry and the end of the
\* record through the bucket.
BetweenProbeAndUpdate(t) == rec[t].pc = "found"

\* A section under the shard's exclusive lock runs in this step.
ExclusiveSectionRuns ==
    \E u \in ShardThreads : rec[u].pc = "write" /\ rec'[u].pc # "write"

\* C22: on the fast path the update of the entry found is made under the
\* shared lock the probe took: while a recorder is between its probe and its
\* update, no section under the shard's exclusive lock runs.
C22_UpdateUnderSharedLock ==
    [][(\E t \in ShardThreads : BetweenProbeAndUpdate(t)) => ~ExclusiveSectionRuns]_vars

\* A recorder is about to update through a bucket of a table allocation that
\* a resize under the exclusive lock has freed since its probe.
C22_Witness ==
    \E t \in ShardThreads :
        /\ BetweenProbeAndUpdate(t)
        /\ ~rec[t].bucket.valid

(***************************************************************************)
(* C23.  A drain has the aggregator to itself.                             *)
(***************************************************************************)
\* The calls of bag b that were applied to the entry under that key.
CallsOnKey(b, op, key) ==
    {c \in DOMAIN b :
        /\ c.op = op
        /\ c.metric = key.metric
        /\ TagSection(c) = key.joined_tags}

\* Every gauge of generation g holds whole calls only: its count is the
\* number, and its sum the sum, of the values of the calls that returned.
WholeGauges(g) ==
    \A e \in aggs[g].gauge :
        LET S == CallsOnKey(win[g], "gauge", e.key) IN
        /\ e.val.count = CountOver(win[g], S) % (U64_MAX + 1)
        /\ e.val.sum = SumOver(win[g], S) % (U64_MAX + 1)

MapFields == {"count", "gauge", "histograms"}

\* No map holds two entries with equal metric and equal sorted tags.
OneEntryPerIdentity ==
    \A g \in DOMAIN aggs : \A f \in MapFields : \A e1, e2 \in aggs[g][f] :
        (e1.key.metric = e2.key.metric /\ e1.key.tags = e2.key.tags) => e1 = e2

\* All the calls that have returned on generation g are on one identity.
OneIdentity(g) ==
    \A c, d \in DOMAIN win[g] : SameIdentity(c, d)

\* Every recorder has returned from its call.
AllReturned == \A t \in DOMAIN rec : rec[t].pc = "idle"

\* C24: when several recorders record one identity that is not present yet,
\* one entry is created for it and every recorder's value is applied to that
\* entry: once they have all returned, the map holds no two entries of one
\* identity, and the entry holds the values of all the calls.
C24_OneEntryEveryValue ==
    /\ OneEntryPerIdentity
    /\ (AllReturned /\ OneIdentity(current_aggregator)) =>
          Contained(current_aggregator)

\* The half of C24 on the entries alone.
C24_OneEntry == OneEntryPerIdentity

\* Three recorders of one identity have returned, one entry was created, and
\* it does not hold the values of all three.
C24_Witness ==
    /\ AllReturned
    /\ OneIdentity(current_aggregator)
    /\ BagCardinality(win[current_aggregator]) = 3
    /\ \A f \in MapFields : Cardinality(aggs[current_aggregator][f]) <= 1
    /\ ~Contained(current_aggregator)

(***************************************************************************)
(* C25.  One swap for every drain.                                         *)
(***************************************************************************)
\* The step is a swap: another aggregator is published.
IsSwap == current_aggregator' # current_aggregator

\* The step is a drain: one more entry in the log of drains.
IsDrain == Len(flushed') = Len(flushed) + 1

\* The pending slot is empty while the worker is outside send_metrics' loop,
\* and a pending snapshot is never the published aggregator.
PendingInRun(p, c, w) ==
    /\ w # "run" => p = None
    /\ p # None => p # c

\* C25: the worker swaps only when it has no pending snapshot, and the swap
\* makes the aggregator that was published the pending one; it drains only a
\* pending snapshot, which is never the published aggregator, and the drain
\* empties the pending slot; nothing else changes the slot, which is empty
\* whenever the worker is idle.  So swaps and drains alternate: there is
\* exactly one swap between two consecutive drains.
C25_OneSwapPerDrain ==
    [][ /\ PendingInRun(pending_to_process_aggregator, current_aggregator, wpc)
        /\ PendingInRun(pending_to_process_aggregator', current_aggregator', wpc')
        /\ IsSwap =>
              /\ pending_to_process_aggregator = None
              /\ pending_to_process_aggregator' = current_aggregator
              /\ ~IsDrain
        /\ IsDrain =>
              /\ pending_to_process_aggregator # None
              /\ pending_to_process_aggregator # current_aggregator
              /\ pending_to_process_aggregator' = None
              /\ ~IsSwap
        /\ pending_to_process_aggregator' # pending_to_process_aggregator =>
              IsSwap \/ IsDrain
      ]_vars

\* The worker is idle after its second drain: two swaps were made, the
\* second one published the aggregator that the first drain had emptied.
C25_Witness ==
    /\ wpc = "idle"
    /\ Len(flushed) = 2
    /\ pending_to_process_aggregator = None
    /\ available_aggregator # None
    /\ available_aggregator # current_aggregator
    /\ Cardinality(DOMAIN aggs) = 2

(***************************************************************************)
(* C26.  A swapped-out snapshot is drained once its recorders return.      *)
(***************************************************************************)
\* The worker is in send_metrics' loop with a snapshot that a recorder still
\* holds: send_metrics returns WouldBlock.
Blocked ==
    /\ wpc = "run"
    /\ pending_to_process_aggregator # None
    /\ ~try_unwrap(pending_to_process_aggregator)

\* The worker's own state.
JobVars == <<wpc, finish, current_aggregator, pending_to_process_aggregator,
             available_aggregator, written, flushed, stats_writer, socket>>

\* C26: when every recording call returns, every snapshot that was swapped
\* out is drained in the end and the worker leaves send_metrics' loop; as
\* long as a recorder holds the snapshot the worker does nothing but retry,
\* and nothing counts or limits the retries.
C26_SnapshotEventuallyDrained ==
    /\ (pending_to_process_aggregator # None) ~>
           (pending_to_process_aggregator = None /\ wpc # "run")
    /\ [][Blocked => UNCHANGED JobVars]_vars

\* The leads-to half of C26 on its own, for behaviours in which a recording
\* call need not return.
C26_DrainedWithoutReturns ==
    (pending_to_process_aggregator # None) ~>
        (pending_to_process_aggregator = None /\ wpc # "run")

\* The worker retries: a recorder that loaded the aggregator before the swap
\* is still inside its call.
C26_Witness ==
    /\ Blocked
    /\ \E t \in Threads :
          /\ rec[t].pc \in {"loaded", "write"}
          /\ rec[t].agg = pending_to_process_aggregator
    /\ ticks = 1

(***************************************************************************)
(* C27.  A contribution is handed to the writer once.                      *)
(***************************************************************************)
\* Every value of the aggregator is as a reset leaves it.
AllReset(agg) ==
    /\ \A e \in agg.count : e.val = 0
    /\ \A e \in agg.gauge : e.val = [count |-> 0, sum |-> 0]
    /\ \A e \in agg.histograms : e.val = reset(e.val)

\* A write call is a line of the identity of call c.
LineFor(line, c) ==
    /\ line.metric[1] = c.metric
    /\ line.tags = TagSection(c)

\* C27: at every drain, whether its write calls and its flush succeeded or
\* not, every value the drained aggregator keeps is reset, and every line
\* handed to the writer is of an identity recorded in the window of this
\* drain: what an earlier drain handed over is not handed over again, and
\* the data of a failed flush is dropped.
C27_HandedOverOnce ==
    [][(pending_to_process_aggregator # None
        /\ pending_to_process_aggregator' = None) =>
           LET g == pending_to_process_aggregator IN
           /\ g \in DOMAIN aggs' => AllReset(aggs'[g])
           /\ \A i \in DOMAIN written' :
                 \E c \in DOMAIN win[g] : LineFor(written'[i], c)
           /\ \A h \in DOMAIN win' : h # current_aggregator => win'[h] = EmptyBag
      ]_vars

\* The sends of the first drain failed; the second drain, of the other
\* aggregator, and the third, of the aggregator of the first again, handed
\* nothing to the writer, and no datagram was ever sent.
C27_Witness ==
    /\ Len(flushed) = 3
    /\ flushed[1].written # <<>>
    /\ Failed(flushed[1].results)
    /\ flushed[2].written = <<>>
    /\ flushed[3].written = <<>>
    /\ socket = <<>>

(***************************************************************************)
(* C28.  The available aggregator holds no contribution.                   *)
(***************************************************************************)
\* Every entry of the aggregator has a zero contribution: a counter of 0, a
\* gauge with sum 0 and count 0, an empty histogram with min = u64::MAX and
\* max = 0.
ZeroContribution(agg) ==
    /\ \A e \in agg.count : e.val = 0
    /\ \A e \in agg.gauge : e.val.sum = 0 /\ e.val.count = 0
    /\ \A e \in agg.histograms :
          /\ Len(e.val.histogram) = 0
          /\ e.val.min = U64_MAX
          /\ e.val.max = 0

\* The aggregator in the available slot, if any, holds no contribution.
AvailableIsZero(avail, all) ==
    avail # None => ZeroContribution(all[avail])

\* C28: every entry retained by the aggregator in the worker's available
\* slot has a zero contribution, in every state and at the moment a swap
\* publishes that aggregator again.
C28_AvailableIsZero ==
    [][ /\ AvailableIsZero(available_aggregator, aggs)
        /\ AvailableIsZero(available_aggregator', aggs')
        /\ (IsSwap /\ available_aggregator # None) =>
              /\ current_aggregator' = available_aggregator
              /\ ZeroContribution(aggs'[current_aggregator'])
      ]_vars

\* A swap has just published the aggregator of the first drain again: it
\* retains the histogram entry that was drained, empty and with its extrema
\* reset.
C28_Witness ==
    /\ Len(flushed) = 1
    /\ ticks = 2
    /\ pending_to_process_aggregator # None
    /\ available_aggregator = None
    /\ aggs[current_aggregator].histograms # {}
    /\ ZeroContribution(aggs[current_aggregator])
    /\ win[current_aggregator] = EmptyBag

(***************************************************************************)
(* C29.  The slices of a writer that does not copy.                        *)
(***************************************************************************)
\* A call of sendmmsg has been given slices of an earlier cycle: of values in
\* an arena that has been reset since, and of keys that a later drain may
\* have evicted.
StaleSliceSent == wcall.stale

\* C29: with the batched writer, which keeps the slices passed to write
\* until it sends them, no datagram is sent that holds a slice of an earlier
\* cycle: when the arena is reset after the flush, the writer holds no slice
\* any more.
C29_SlicesOutliveSend ==
    stats_writer.writer_type = "LinuxBatch" =>
        /\ ~StaleSliceSent
        /\ ~stats_writer.current_transmit.stale

\* The same statement for the packet sizes up to half the length word, with
\* which the length of a transmit does not wrap.
C29_SlicesOutliveSend_HalfWord ==
    (stats_writer.writer_type = "LinuxBatch"
     /\ stats_writer.max_udp_packet_size <= U16_MAX \div 2) =>
        /\ ~StaleSliceSent
        /\ ~stats_writer.current_transmit.stale

\* C29, the keys: a key whose line was written in a drain is not evicted in
\* that drain, whatever the writer.
C29_KeysOfLinesKept ==
    [][(pending_to_process_aggregator # None
        /\ pending_to_process_aggregator' = None
        /\ pending_to_process_aggregator \in DOMAIN aggs') =>
           LET agg == aggs'[pending_to_process_aggregator] IN
           \A i \in DOMAIN written' :
               \E e \in agg.count \cup agg.gauge \cup agg.histograms :
                   /\ e.key.metric = written'[i].metric[1]
                   /\ e.key.joined_tags = written'[i].tags
      ]_vars

\* A flush of a later cycle has sent a datagram that begins with the lines
\* of an earlier cycle, whose length had wrapped to 0 so that the flush of
\* their own cycle left them in current_transmit.
C29_Witness ==
    /\ stats_writer.writer_type = "LinuxBatch"
    /\ StaleSliceSent
    /\ wcall.result = "Ok"
    /\ wcall.phase = "flushed"
    /\ socket # <<>>

(***************************************************************************)
(* C30.  Removal by hash and id.                                           *)
(***************************************************************************)
\* The entries of every map of every aggregator, each with its place.
Placed ==
    UNION {UNION {{[agg |-> a, field |-> f, entry |-> e] : e \in aggs[a][f]} :
                     f \in MapFields} : a \in DOMAIN aggs}

\* The ids drawn so far are below NEXT_ID, and no two entries share one.
IdsUnique ==
    \A p, q \in Placed :
        /\ p.entry.key.id < NEXT_ID
        /\ p.entry.key.id = q.entry.key.id => p = q

\* remove_from_map with the RemoveKey of any entry of any aggregator, on any
\* map: the entry goes if it is in that map, and otherwise the map stays as
\* it is, an entry of the same content under another id included.
RemovesItsEntryOnly ==
    \A p \in Placed : \A a \in DOMAIN aggs : \A f \in MapFields :
        remove_from_map(aggs[a][f], to_key(p.entry.key)) =
            IF p.agg = a /\ p.field = f THEN aggs[a][f] \ {p.entry}
                                        ELSE aggs[a][f]

\* The ids of the entries of map f of aggregator a.
IdsOf(as, a, f) == {e.key.id : e \in as[a][f]}

\* A drain takes from the drained aggregator the ids of the entries without
\* contribution and no other, and leaves every other aggregator as it is.
DrainRemovesListed ==
    IsDrain =>
        LET g == pending_to_process_aggregator IN
        /\ \A a \in DOMAIN aggs' : a # g => aggs'[a] = aggs[a]
        /\ g \in DOMAIN aggs' =>
              /\ IdsOf(aggs', g, "count") =
                    {e.key.id : e \in {x \in aggs[g].count : x.val > 0}}
              /\ IdsOf(aggs', g, "gauge") =
                    {e.key.id : e \in {x \in aggs[g].gauge : x.val.count > 0}}
              /\ IdsOf(aggs', g, "histograms") =
                    {e.key.id : e \in {x \in aggs[g].histograms :
                                          Len(x.val.histogram) > 0}}

\* C30: a removal by RemoveKey (hash, id) removes the entry of that id and
\* nothing else; no two keys ever share an id, so the RemoveKey of an entry
\* does not remove an entry of the same content that was inserted later.
C30_RemovalById ==
    /\ [](IdsUnique /\ RemovesItsEntryOnly)
    /\ [][DrainRemovesListed]_vars

\* A drain has evicted a counter entry that held 0 while the published
\* aggregator holds an entry of the same metric and tags under a later id.
C30_Witness ==
    /\ Len(flushed) = 1
    /\ NEXT_ID = 2
    /\ available_aggregator # None
    /\ \A f \in MapFields : aggs[available_aggregator][f] = {}
    /\ \E c \in DOMAIN drained, d \in DOMAIN win[current_aggregator] :
          /\ c.op = "count" /\ c.value = 0
          /\ d.op = "count" /\ d.metric = c.metric /\ d.tags = c.tags
    /\ \E e \in aggs[current_aggregator].count : e.key.id = 1

(***************************************************************************)
(* C31.  One entry for every identity of every variant.                    *)
(***************************************************************************)
\* The map of the variant a call records into.
MapOf(op) == IF op = "histogram" THEN "histograms" ELSE op

\* The entries of generation g that hold the identity of call c: in the map
\* of its variant, the entries of its metric and its tags in ascending order.
EntriesOf(g, c) ==
    {e \in aggs[g][MapOf(c.op)] :
        e.key.metric = c.metric /\ e.key.tags = Ascending(c.tags)}

C31_Variants ==
    /\ AllReturned
    /\ \E e1 \in aggs[current_aggregator].count :
       \E e2 \in aggs[current_aggregator].histograms :
          /\ e1.key.metric = e2.key.metric
          /\ e1.key.tags = e2.key.tags
          /\ e1.key.id # e2.key.id
          /\ e1.val = 1 /\ Len(e2.val.histogram) = 1

(***************************************************************************)
(* C32.  The cells of the histogram pools.                                 *)
(***************************************************************************)
\* A cell holds no recorded value and has the extrema of a new cell.
Cleared(cell) ==
    /\ cell.histogram = <<>>
    /\ cell.min = U64_MAX
    /\ cell.max = 0

\* C32: every cell in bucket i of the histogram pools of every aggregator has
\* precision i and is cleared, so that get_histogram returns the same cell
\* whether it takes it from the pool or creates it.
C32_PooledCellsCleared ==
    \A g \in DOMAIN aggs : \A i \in 0..SIG_FIG_MAX :
        /\ \A k \in DOMAIN aggs[g].pool_histograms[i] :
              LET cell == aggs[g].pool_histograms[i][k] IN
              cell.sig_fig = i /\ Cleared(cell)
        /\ get_histogram(aggs[g], i) = new_with_bounds(i)

\* A histogram of metric n was recorded and drained, its entry was evicted two
\* drains later into the pool of its aggregator, and after the next swap a
\* second recording on n has taken the cell from the pool: the pools are
\* empty again and the new entry holds the one value.
C32_Witness ==
    /\ Len(flushed) = 4
    /\ flushed[1].written # <<>>
    /\ \A c \in DOMAIN flushed[1].drained : c.op = "histogram" /\ c.metric = metric_n
    /\ flushed[3].written = <<>>
    /\ NEXT_ID = 2
    /\ AllReturned
    /\ \A i \in 0..SIG_FIG_MAX : aggs[current_aggregator].pool_histograms[i] = <<>>
    /\ \E e \in aggs[current_aggregator].histograms :
          /\ e.key.id = 1
          /\ e.key.metric = metric_n
          /\ e.val = record(new_with_bounds(sig_fig_of(metric_n)), 1)

\* An evicted cell lies in the pool bucket of its precision.
C32_Pooled ==
    \E g \in DOMAIN aggs : aggs[g].pool_histograms[sig_fig_of(metric_n)] # <<>>

C33_FailedRecordKeepsCount ==
    (applied.fn = "HistogramWrapper::record" /\ applied.ret.result = "Err") =>
        applied.ret.cell.histogram = applied.arg.cell.histogram

C33_CollectorCellsTrackAll ==
    \A g \in DOMAIN aggs :
        /\ \A e \in aggs[g].histograms : e.val.high = U64_MAX
        /\ \A i \in 0..SIG_FIG_MAX : \A k \in DOMAIN aggs[g].pool_histograms[i] :
              aggs[g].pool_histograms[i][k].high = U64_MAX

(***************************************************************************)
(* C34.  Nothing is left in the writer between two drains.                 *)
(***************************************************************************)
\* The writer holds no line, no queued datagram and no slice.
HoldsNothing(w) ==
    /\ w.queued_transmits = <<>>
    /\ IF w.writer_type = "Simple" THEN w.current_transmit = <<>>
       ELSE w.current_transmit.parts = <<>>

\* The step that ends a cycle: the reset after the flush.
IsReset == wcall.phase = "flushed" /\ wcall'.phase = "open"

\* C34: the reset that ends a drain, whatever its flush returned, leaves the
\* writer without a line, a datagram or a slice, so that the next drain
\* starts with an empty writer.
C34_NothingLeftOver == [][IsReset => HoldsNothing(stats_writer')]_vars

\* The same statement for the packet sizes up to half the length word.
C34_NothingLeftOver_HalfWord ==
    [][(IsReset /\ stats_writer.max_udp_packet_size <= U16_MAX \div 2) =>
          HoldsNothing(stats_writer')]_vars

\* The default writer of the collector is empty outside a drain.
C34_CollectorWriterEmpty == HoldsNothing(stats_writer)

\* After a flush that failed, the reset has discarded the queued datagrams
\* and the simple writer's buffer.
C34_DiscardedAfterFailure ==
    [][(IsReset /\ wcall.result = "Err") =>
          /\ stats_writer'.queued_transmits = <<>>
          /\ stats_writer.writer_type = "Simple" => stats_writer'.current_transmit = <<>>
      ]_vars

\* The batched writer is open for the next drain and still holds the parts
\* of the lines of the drain that ended.
C34_Witness ==
    /\ stats_writer.writer_type = "LinuxBatch"
    /\ wcall.phase = "open"
    /\ wcall.n = 2
    /\ stats_writer.current_transmit.stale
    /\ stats_writer.current_transmit.len = 0
    /\ Len(stats_writer.current_transmit.parts) > 0
    /\ socket = <<>>

(***************************************************************************)
(* C35.  Datagrams are made of whole lines.                                *)
(***************************************************************************)
\* The lines the write calls of the writer's caller produce.
PossibleLines(w) ==
    {LineOf(w.stats_prefix, shape[1], tags, value, shape[2]) :
        shape \in WriteShapes, tags \in WriteTags, value \in WriteValues}

\* The bytes are a concatenation of whole lines.
RECURSIVE IsLines(_, _)
IsLines(d, lines) ==
    \/ d = <<>>
    \/ \E l \in lines :
          /\ Len(l) <= Len(d)
          /\ SubSeq(d, 1, Len(l)) = l
          /\ IsLines(SubSeq(d, Len(l) + 1, Len(d)), lines)

\* The datagrams the writer holds, in the order in which it will send them:
\* the queued ones, then the pending one.
HeldSeq(w) ==
    IF w.writer_type = "Simple" THEN <<w.current_transmit>>
    ELSE [i \in DOMAIN w.queued_transmits |-> Flatten(w.queued_transmits[i].parts)]
             \o <<Flatten(w.current_transmit.parts)>>

\* Every datagram sent or held is made of whole lines.
WholeLines ==
    /\ \A i \in DOMAIN socket : IsLines(socket[i], PossibleLines(stats_writer))
    /\ \A i \in DOMAIN HeldSeq(stats_writer) :
          IsLines(HeldSeq(stats_writer)[i], PossibleLines(stats_writer))

\* A write call that accepts its line appends it to the pending datagram if
\* the two fit in a packet, and else closes the pending datagram and starts
\* the next one with the line.
ClosedBeforeAppend ==
    (wcall'.n = wcall.n + 1 /\ wcall'.result = "Ok") =>
        LET line == LineOf(stats_writer.stats_prefix, wcall'.metrics,
                           wcall'.tags, wcall'.value, wcall'.metric_type)
            pending == Datagram(stats_writer)
        IN  Datagram(stats_writer') =
                IF Len(pending) + Len(line) > stats_writer.max_udp_packet_size
                THEN line ELSE pending \o line

\* What a step hands to the transport are the first of the datagrams held, in
\* their order and as they were held.
SentInOrder ==
    \E n \in 0..Len(HeldSeq(stats_writer)) :
        socket' = socket \o SubSeq(HeldSeq(stats_writer), 1, n)

\* C35: every datagram handed to the transport is a concatenation of whole
\* lines in the order in which they were written: a line that does not fit
\* into the pending datagram closes it and starts the next one, and the
\* datagrams are sent as they were held, the oldest first.
C35_WholeLinesInOrder ==
    /\ []WholeLines
    /\ [][ClosedBeforeAppend /\ SentInOrder]_vars

\* The same statement for the simple writer and, of the batched writer, for
\* the packet sizes up to half the length word.
C35_WholeLinesInOrder_HalfWord ==
    /\ []WholeLines
    /\ [][(stats_writer.writer_type = "Simple"
           \/ stats_writer.max_udp_packet_size <= U16_MAX \div 2) =>
              (ClosedBeforeAppend /\ SentInOrder)]_vars

\* The part that holds of both writers with every packet size.
C35_WholeLinesSent == []WholeLines /\ [][SentInOrder]_vars

\* The batched writer has appended a line to a pending datagram that the two
\* overfill: the datagram is made of whole lines and is longer than a packet.
C35_Witness ==
    /\ stats_writer.writer_type = "LinuxBatch"
    /\ wcall.result = "Ok"
    /\ wcall.phase = "open"
    /\ Len(Datagram(stats_writer)) > stats_writer.max_udp_packet_size
    /\ IsLines(Datagram(stats_writer), PossibleLines(stats_writer))
    /\ socket = <<>>

(***************************************************************************)
(* C36: what flush() returns.                                              *)
(***************************************************************************)
\* The bytes handed to the transport since the previous flush ended.
SentSince == segments_len(SubSeq(socket, wcall.mark + 1, Len(socket)))

\* The datagrams handed to the transport since the previous flush ended.
DatagramsSince == Len(socket) - wcall.mark

\* C36: a flush() that succeeds returns the total number of bytes sent for the
\* lines written since the previous flush.
C36_FlushReturnsBytesSent ==
    (wcall.phase = "flushed" /\ wcall.result = "Ok") => wcall.ret = SentSince

\* What the code returns: StatsWriterSimple the bytes of the one datagram the
\* flush itself sent (0 when the buffer was empty), StatsWriterLinux the
\* number of datagrams the flush itself sent.
C36_FlushReturnsLastSend ==
    [][(wcall.phase = "open" /\ wcall'.phase = "flushed" /\ wcall'.result = "Ok") =>
         IF stats_writer.writer_type = "Simple"
         THEN wcall'.ret = segments_len(SubSeq(socket', Len(socket) + 1, Len(socket')))
              /\ Len(socket') <= Len(socket) + 1
         ELSE wcall'.ret = Len(socket') - Len(socket)]_vars

\* A flush that succeeded after more than one datagram was sent, and returned
\* another number than their bytes.
C36_Witness ==
    /\ wcall.phase = "flushed"
    /\ wcall.result = "Ok"
    /\ DatagramsSince > 1
    /\ wcall.ret # SentSince

\* A flush of StatsWriterSimple that returned fewer bytes than were sent.
C36_SimpleShort ==
    /\ stats_writer.writer_type = "Simple"
    /\ wcall.phase = "flushed"
    /\ wcall.result = "Ok"
    /\ wcall.ret > 0
    /\ wcall.ret < SentSince

(***************************************************************************)
(* C37: the accumulators wrap.                                             *)
(***************************************************************************)
\* The counter (gauge) identity of c has an entry in map m.
HasEntry(m, c) ==
    \E e \in m : e.key.metric = c.metric /\ e.key.joined_tags = TagSection(c)

\* The positions in the write calls w of the lines of identity c with that
\* type.
LinesIn(w, c, metric_type) ==
    {i \in DOMAIN w : /\ w[i].metric = <<c.metric>>
                      /\ w[i].metric_type = metric_type
                      /\ w[i].tags = TagSection(c)}

\* The drain of generation g, whose window was b, emitted for the counter
\* identity of c the sum modulo the word size, and emitted nothing and
\* removed the key when that is zero.
CounterWrapped(g, b, c) ==
    LET total == ValueSum(b, c) % (U64_MAX + 1)
        lines == LinesIn(written', c, str_c)
    IN  IF total = 0
        THEN /\ lines = {}
             /\ g \in DOMAIN aggs' => ~HasEntry(aggs'[g].count, c)
        ELSE /\ Cardinality(lines) = 1
             /\ \A i \in lines : written'[i].value = format(total)
             /\ g \in DOMAIN aggs' => HasEntry(aggs'[g].count, c)

\* The drain emitted for the gauge identity of c the sum modulo the word
\* size, divided by the number of samples and rounded down.
GaugeWrapped(b, c) ==
    LET total == ValueSum(b, c) % (U64_MAX + 1)
        lines == LinesIn(written', c, str_g)
    IN  /\ Cardinality(lines) = 1
        /\ \A i \in lines :
              written'[i].value = format(total \div ValueCount(b, c))

C37_GaugeBeyondWord ==
    \E c \in GaugeCalls :
        /\ ValueCount(drained, c) = 2
        /\ ValueSum(drained, c) = 2 * U64_MAX
        /\ \E i \in LinesOf(c, <<c.metric>>, str_g) :
              written[i].value = format((U64_MAX - 1) \div 2)

(***************************************************************************)
(* C38: the flexible string is its bytes.                                  *)
(***************************************************************************)
\* The bytes of a slice of RylvStr, as a multiset.
BytesBag(tags) == TagBag([i \in DOMAIN tags |-> tags[i].s])

\* C38: equality, ordering and hashing of RylvStr depend on the bytes only,
\* and two recordings whose metric and tags are byte-equal update one entry
\* whatever the variants of their strings are; recordings that differ in a
\* byte make two entries.
C38_BytesOnly ==
    applied.fn = "RylvStr" =>
        LET x == applied.arg
            r == applied.ret
            same == x.a.s = x.b.s /\ BytesBag(x.ta) = BytesBag(x.tb)
        IN  /\ r.eq <=> x.a.s = x.b.s
            /\ r.cmp = (IF x.a.s = x.b.s THEN "Equal"
                        ELSE IF StrLess(x.a.s, x.b.s) THEN "Less" ELSE "Greater")
            /\ same => r.hash_a = r.hash_b
            /\ same => r.map = {[key |-> into_key(build_lookup_key(x.a.s,
                                             sort_unstable([i \in DOMAIN x.ta |-> x.ta[i].s])), 0),
                                 val |-> 2]}
            /\ ~same => Cardinality(r.map) = 2

\* A Static and an Owned string of the same bytes, with tags of a third
\* variant in another order, were recorded into one entry.
C38_Witness ==
    /\ applied.fn = "RylvStr"
    /\ applied.arg.a.variant = "Static"
    /\ applied.arg.b.variant = "Owned"
    /\ applied.arg.a.s = applied.arg.b.s
    /\ applied.arg.ta # <<>>
    /\ applied.arg.ta[1].variant = "Borrowed"
    /\ applied.arg.tb # <<>>
    /\ applied.arg.tb[1].variant = "Static"
    /\ applied.arg.ta[1].s # applied.arg.tb[1].s
    /\ applied.ret.eq
    /\ Cardinality(applied.ret.map) = 1

(***************************************************************************)
(* C39: the precision of a histogram key.                                  *)
(***************************************************************************)
\* The precision configured for a metric name, else the default.
ConfiguredPrecision(metric) ==
    IF \E x \in DOMAIN histogram_configs : x = metric
    THEN histogram_configs[metric] ELSE default_sig_fig

\* C39: a histogram key has, from its insertion on, the precision configured
\* for its metric name, else the default, and no later step changes the
\* precision of a key that stays in its map.
C39_PrecisionFixedAtInsertion ==
    [][\A g \in DOMAIN aggs' : \A e \in aggs'[g].histograms :
          /\ e.val.sig_fig = ConfiguredPrecision(e.key.metric)
          /\ g \in DOMAIN aggs =>
                \A d \in aggs[g].histograms :
                    d.key.id = e.key.id => d.val.sig_fig = e.val.sig_fig]_vars

\* A key of the configured metric n holds two values, the second recorded
\* into the existing entry, at precision 2; a key of metric m beside it has
\* the default precision.
C39_Witness ==
    \E g \in DOMAIN aggs :
        /\ \E e \in aggs[g].histograms :
              /\ e.key.metric = metric_n
              /\ Len(e.val.histogram) = 2
              /\ e.val.sig_fig = 2
        /\ NEXT_ID = 1

\* Keys of both metrics in one map, each with its own precision.
C39_BothPrecisions ==
    \E g \in DOMAIN aggs : \E d, e \in aggs[g].histograms :
        /\ d.key.metric = metric_n /\ d.val.sig_fig = 2
        /\ e.key.metric = metric_m /\ e.val.sig_fig = SIG_FIG_DEF

\* A key of metric n was inserted with a cell taken from the pool.
C39_FromPool ==
    \E g \in DOMAIN aggs : \E e \in aggs[g].histograms :
        /\ e.key.metric = metric_n
        /\ e.val.sig_fig = 2
        /\ e.val.histogram # <<>>
        /\ ticks = MaxKeyTicks
        /\ NEXT_ID = 2

(***************************************************************************)
(* C40: a recording that finds its entry.                                  *)
(***************************************************************************)
\* The step is thread t's update of an entry that its probe found: the probe
\* of a call that finds its key, or the second fetch_add of a gauge.
FoundStep(t) ==
    /\ rec'[t] # rec[t]
    /\ \/ rec[t].pc = "gsum"
       \/ /\ rec[t].pc \in {"loaded", "write"}
          /\ \E e \in aggs[rec[t].agg][MapOf(rec[t].op)] :
                /\ e.key.metric = rec[t].metric
                /\ e.key.tags = rec[t].tags

\* The keys of a map.
KeysIn(map) == {e.key : e \in map}

\* Between the two states nothing changed but the value of entries of that
\* metric and those tags in map m of generation g: every generation is still
\* there with the same keys in its maps and the same pools, and every other
\* entry is as it was.
OnlyValueOf(g, m, metric, tags) ==
    /\ NEXT_ID' = NEXT_ID
    /\ DOMAIN aggs' = DOMAIN aggs
    /\ \A h \in DOMAIN aggs :
          /\ aggs'[h].pool_histograms = aggs[h].pool_histograms
          /\ \A n \in {"count", "gauge", "histograms"} :
                /\ KeysIn(aggs'[h][n]) = KeysIn(aggs[h][n])
                /\ \A e \in aggs'[h][n] :
                      \/ e \in aggs[h][n]
                      \/ /\ h = g
                         /\ n = m
                         /\ e.key.metric = metric
                         /\ e.key.tags = tags

C40_FoundBesidePool ==
    /\ calls = MaxFoundCalls
    /\ \A t \in Threads : rec[t].pc = "idle"
    /\ \E g \in DOMAIN aggs :
          /\ \E e \in aggs[g].histograms : Len(e.val.histogram) = 2
          /\ \E i \in DOMAIN aggs[g].pool_histograms :
                aggs[g].pool_histograms[i] # <<>>

====
